---- MODULE Spec2Model ----
(***************************************************************************)
(* Model of pkg/crypto (go-infra): the JWTManager of jwt.go together with  *)
(* the behaviour of github.com/golang-jwt/jwt/v5 that its calls rely on    *)
(* (compact three-segment tokens, NumericDate precision, the default       *)
(* claims validator and the texts of the parse errors that                 *)
(* handleParseError classifies by substring); the Encryptor of encrypt.go; *)
(* the Hasher; the package-level default instances; concurrent             *)
(* GenerateToken calls; the config objects the constructors keep; and      *)
(* FromHTTPStatus and Wrap of pkg/errors.                                  *)
(*                                                                         *)
(* Specifications: Spec (JWTManager), SpecEnc (Encryptor), SpecHash        *)
(* (Hasher), SpecErr (pkg/errors), SpecDefault (default instances),        *)
(* SpecConc (goroutines), SpecAlias (config objects).                      *)
(*                                                                         *)
(* Time is counted in ticks, TicksPerSecond ticks to the second, so that   *)
(* the instants between two whole seconds exist in the model.              *)
(* Go strings that the code only compares are TLA+ strings; the error      *)
(* texts that the code searches for substrings are sequences of            *)
(* one-character strings.                                                  *)
(***************************************************************************)
EXTENDS Integers, Sequences, FiniteSets, TLC

\* ---------------------------------------------------------------- bounds
TicksPerSecond == 2
MaxNow == 4
MaxTTL == 3
MaxPlain == 2
MaxNonce == 2
MaxSalt == 2

\* ------------------------------------------------- error texts (char seqs)
\* "token is malformed"
ErrTokenMalformed == <<"t","o","k","e","n"," ","i","s"," ","m","a","l","f","o","r","m","e","d">>
\* "token is unverifiable"
ErrTokenUnverifiable == <<"t","o","k","e","n"," ","i","s"," ","u","n","v","e","r","i","f","i","a","b","l","e">>
\* "token signature is invalid"
ErrTokenSignatureInvalid == <<"t","o","k","e","n"," ","s","i","g","n","a","t","u","r","e"," ","i","s"," ","i","n","v","a","l","i","d">>
\* "token has invalid claims"
ErrTokenInvalidClaims == <<"t","o","k","e","n"," ","h","a","s"," ","i","n","v","a","l","i","d"," ","c","l","a","i","m","s">>
\* "token is expired"
ErrTokenExpired == <<"t","o","k","e","n"," ","i","s"," ","e","x","p","i","r","e","d">>
\* "token is not valid yet"
ErrTokenNotValidYet == <<"t","o","k","e","n"," ","i","s"," ","n","o","t"," ","v","a","l","i","d"," ","y","e","t">>
\* "signature is invalid"
ErrSignatureInvalid == <<"s","i","g","n","a","t","u","r","e"," ","i","s"," ","i","n","v","a","l","i","d">>
\* "key is of invalid type"
ErrInvalidKeyType == <<"k","e","y"," ","i","s"," ","o","f"," ","i","n","v","a","l","i","d"," ","t","y","p","e">>
\* "crypto/rsa: verification error"
ErrRSAVerification == <<"c","r","y","p","t","o","/","r","s","a",":"," ","v","e","r","i","f","i","c","a","t","i","o","n"," ","e","r","r","o","r">>
\* "token contains an invalid number of segments"
MsgInvalidSegments == <<"t","o","k","e","n"," ","c","o","n","t","a","i","n","s"," ","a","n"," ","i","n","v","a","l","i","d"," ","n","u","m","b","e","r"," ","o","f"," ","s","e","g","m","e","n","t","s">>
\* "could not base64 decode header"
MsgDecodeHeader == <<"c","o","u","l","d"," ","n","o","t"," ","b","a","s","e","6","4"," ","d","e","c","o","d","e"," ","h","e","a","d","e","r">>
\* "could not JSON decode header"
MsgJSONHeader == <<"c","o","u","l","d"," ","n","o","t"," ","J","S","O","N"," ","d","e","c","o","d","e"," ","h","e","a","d","e","r">>
\* "could not base64 decode claim"
MsgDecodeClaim == <<"c","o","u","l","d"," ","n","o","t"," ","b","a","s","e","6","4"," ","d","e","c","o","d","e"," ","c","l","a","i","m">>
\* "could not JSON decode claim"
MsgJSONClaim == <<"c","o","u","l","d"," ","n","o","t"," ","J","S","O","N"," ","d","e","c","o","d","e"," ","c","l","a","i","m">>
\* "could not base64 decode signature"
MsgDecodeSignature == <<"c","o","u","l","d"," ","n","o","t"," ","b","a","s","e","6","4"," ","d","e","c","o","d","e"," ","s","i","g","n","a","t","u","r","e">>
\* "signing method (alg) is unavailable"
MsgAlgUnavailable == <<"s","i","g","n","i","n","g"," ","m","e","t","h","o","d"," ","(","a","l","g",")"," ","i","s"," ","u","n","a","v","a","i","l","a","b","l","e">>
\* "signing method (alg) is unspecified"
MsgAlgUnspecified == <<"s","i","g","n","i","n","g"," ","m","e","t","h","o","d"," ","(","a","l","g",")"," ","i","s"," ","u","n","s","p","e","c","i","f","i","e","d">>
\* "error while executing keyfunc"
MsgKeyfunc == <<"e","r","r","o","r"," ","w","h","i","l","e"," ","e","x","e","c","u","t","i","n","g"," ","k","e","y","f","u","n","c">>
\* "invalid token algorithm"
MsgInvalidTokenAlgorithm == <<"i","n","v","a","l","i","d"," ","t","o","k","e","n"," ","a","l","g","o","r","i","t","h","m">>
\* "illegal base64 data at input byte 0"
ErrBase64Corrupt == <<"i","l","l","e","g","a","l"," ","b","a","s","e","6","4"," ","d","a","t","a"," ","a","t"," ","i","n","p","u","t"," ","b","y","t","e"," ","0">>
\* "unexpected end of JSON input"
ErrJSONUnexpectedEnd == <<"u","n","e","x","p","e","c","t","e","d"," ","e","n","d"," ","o","f"," ","J","S","O","N"," ","i","n","p","u","t">>
\* "invalid character 'x' looking for beginning of value"
ErrJSONInvalidChar == <<"i","n","v","a","l","i","d"," ","c","h","a","r","a","c","t","e","r"," ","'","x","'"," ","l","o","o","k","i","n","g"," ","f","o","r"," ","b","e","g","i","n","n","i","n","g"," ","o","f"," ","v","a","l","u","e">>
\* "invalid character 'x' in literal true (expecting 'r')"
ErrJSONBadLiteral == <<"i","n","v","a","l","i","d"," ","c","h","a","r","a","c","t","e","r"," ","'","x","'"," ","i","n"," ","l","i","t","e","r","a","l"," ","t","r","u","e"," ","(","e","x","p","e","c","t","i","n","g"," ","'","r","'",")">>
\* "token is expired"
SubTokenIsExpired == <<"t","o","k","e","n"," ","i","s"," ","e","x","p","i","r","e","d">>
\* "exp"
SubExp == <<"e","x","p">>
\* "not valid yet"
SubNotValidYet == <<"n","o","t"," ","v","a","l","i","d"," ","y","e","t">>
\* "nbf"
SubNbf == <<"n","b","f">>
\* "used before issued"
SubUsedBeforeIssued == <<"u","s","e","d"," ","b","e","f","o","r","e"," ","i","s","s","u","e","d">>
\* "iat"
SubIat == <<"i","a","t">>
\* ": "
Sep == <<":"," ">>
\* "\n"
JoinSep == <<"\n">>

\* ------------------------------------------------------------ Go strings
\* s[i:j] of Go (0-based, j exclusive) on a character sequence.
Slice(s, i, j) == SubSeq(s, i + 1, j)

\* containsHelper: some window of s equals substr.
containsHelper(s, substr) ==
    \E i \in 0..(Len(s) - Len(substr)) : Slice(s, i, i + Len(substr)) = substr

\* contains, as written: length test, equality, prefix, suffix, then the scan.
contains(s, substr) ==
    /\ Len(s) >= Len(substr)
    /\ \/ s = substr
       \/ /\ Len(s) > Len(substr)
          /\ \/ Slice(s, 0, Len(substr)) = substr
             \/ Slice(s, Len(s) - Len(substr), Len(s)) = substr
             \/ containsHelper(s, substr)

\* newError(message, err, more...) of the token library: the parts joined by ": ".
RECURSIVE JoinParts(_)
JoinParts(parts) ==
    IF Len(parts) = 1 THEN parts[1]
    ELSE parts[1] \o Sep \o JoinParts(Tail(parts))

\* ------------------------------------------------------------------ nil
\* A nil pointer (config, claims, key) and a nil *NumericDate.
Nil == [nil |-> TRUE]
NoDate == -1

\* ------------------------------------------------------------ algorithms
AlgorithmHS256 == "HS256"
AlgorithmHS384 == "HS384"
AlgorithmHS512 == "HS512"
AlgorithmRS256 == "RS256"
AlgorithmRS384 == "RS384"
AlgorithmRS512 == "RS512"
HMACAlgorithms == {AlgorithmHS256, AlgorithmHS384, AlgorithmHS512}
RSAAlgorithms == {AlgorithmRS256, AlgorithmRS384, AlgorithmRS512}
SupportedAlgorithms == HMACAlgorithms \cup RSAAlgorithms

\* Signing methods the token library has registered beyond those six, and a
\* header value it has not.
OtherRegisteredMethods == {"none", "ES256"}
RegisteredMethods == SupportedAlgorithms \cup OtherRegisteredMethods
UnregisteredAlg == "XX"
NoAlg == ""

\* ------------------------------------------------------------------ keys
\* A key value as Go types it: []byte, *rsa.PrivateKey, *rsa.PublicKey.
\* pem(k) stands for the bytes of RSA key k's public half used as a secret.
Bytes(v) == [t |-> "bytes", v |-> v]
RSAPrivate(k) == [t |-> "rsapriv", v |-> k]
RSAPublic(k) == [t |-> "rsapub", v |-> k]
Secrets == {"s1", "s2"}
RSAKeys == {"k1", "k2"}

\* ---------------------------------------------------------------- config
AccessToken == "access"
RefreshToken == "refresh"
TokenTypes == {AccessToken, RefreshToken}

Issuers == {"svc", "other"}
Audiences == {"api", "other-api"}
TTLs == 0..MaxTTL

DefaultJWTConfig ==
    [Secret |-> "", PrivateKey |-> Nil, PublicKey |-> Nil,
     Algorithm |-> AlgorithmHS256, Issuer |-> "go-infra",
     Audience |-> "go-infra-api",
     AccessTokenExpiry |-> 15 * 60 * TicksPerSecond,
     RefreshTokenExpiry |-> 7 * 24 * 60 * 60 * TicksPerSecond]

\* A validateJWTConfig that asks an RSA configuration for its signing key
\* only.
validateJWTConfigSigningKeyOnly(config) ==
    IF config.Algorithm \in HMACAlgorithms THEN
        IF config.Secret = "" THEN "secret is required for HMAC algorithms"
        ELSE ""
    ELSE IF config.Algorithm \in RSAAlgorithms THEN
        IF config.PrivateKey = Nil
        THEN "private key is required for RSA algorithms"
        ELSE ""
    ELSE "unsupported JWT algorithm"

\* validateJWTConfig: "" when the configuration is accepted, else the message.
validateJWTConfig(config) ==
    IF config.Algorithm \in HMACAlgorithms THEN
        IF config.Secret = "" THEN "secret is required for HMAC algorithms"
        ELSE ""
    ELSE IF config.Algorithm \in RSAAlgorithms THEN
        IF config.PrivateKey = Nil
        THEN "private key is required for RSA algorithms"
        ELSE IF config.PublicKey = Nil
        THEN "public key is required for RSA algorithms"
        ELSE ""
    ELSE "unsupported JWT algorithm"

\* NewJWTManager: [m, err]; a nil config stands for DefaultJWTConfig().
NewJWTManagerOf(config) ==
    LET c == IF config = Nil THEN DefaultJWTConfig ELSE config
        e == validateJWTConfig(c)
    IN  IF e # "" THEN [m |-> Nil, code |-> "BAD_REQUEST", msg |-> e]
        ELSE [m |-> c, code |-> "", msg |-> ""]

getSigningMethod(m) ==
    IF m.Algorithm \in SupportedAlgorithms THEN m.Algorithm ELSE AlgorithmHS256

getSigningKey(m) ==
    IF m.Algorithm \in HMACAlgorithms THEN Bytes(m.Secret)
    ELSE IF m.Algorithm \in RSAAlgorithms THEN m.PrivateKey
    ELSE Bytes(m.Secret)

\* A getVerificationKey that returns the signing key.
getVerificationKeySigning(m) ==
    IF m.Algorithm \in RSAAlgorithms THEN m.PrivateKey ELSE Bytes(m.Secret)

getVerificationKey(m) ==
    IF m.Algorithm \in HMACAlgorithms THEN Bytes(m.Secret)
    ELSE IF m.Algorithm \in RSAAlgorithms THEN m.PublicKey
    ELSE Bytes(m.Secret)

\* ---------------------------------------------------------------- claims
\* Claims: jwt.RegisteredClaims (Issuer, Subject, Audience, ExpiresAt,
\* NotBefore, IssuedAt, ID) and the identity fields.  Roles is a sequence,
\* Custom a set of <<key, value>> pairs; a nil slice or map is the empty one.
MkClaims(iss, sub, aud, exp, nbf, iat, uid, name, email, roles, custom) ==
    [Issuer |-> iss, Subject |-> sub, Audience |-> aud, ExpiresAt |-> exp,
     NotBefore |-> nbf, IssuedAt |-> iat, ID |-> "",
     UserID |-> uid, Username |-> name, Email |-> email, Roles |-> roles,
     Custom |-> custom]

\* &Claims{}: every field at its zero value.
ZeroClaims == MkClaims("", "", <<>>, NoDate, NoDate, NoDate, "", "", "", <<>>, {})

\* A NewNumericDate that rounds up to the next whole second.
NewNumericDateRoundsUp(t) == t + ((TicksPerSecond - (t % TicksPerSecond)) % TicksPerSecond)

\* jwt.NewNumericDate(t) is t.Truncate(jwt.TimePrecision), and TimePrecision
\* is one second unless the program sets it; this one does not.
NewNumericDate(t) == t - (t % TicksPerSecond)

\* The JSON payload of a Claims value: every field is omitempty, so a field
\* at its zero value has no key; a NumericDate is written in whole seconds.
PayloadKeys(c) ==
    (IF c.Issuer # "" THEN {"iss"} ELSE {}) \cup
    (IF c.Subject # "" THEN {"sub"} ELSE {}) \cup
    (IF Len(c.Audience) > 0 THEN {"aud"} ELSE {}) \cup
    (IF c.ExpiresAt # NoDate THEN {"exp"} ELSE {}) \cup
    (IF c.NotBefore # NoDate THEN {"nbf"} ELSE {}) \cup
    (IF c.IssuedAt # NoDate THEN {"iat"} ELSE {}) \cup
    (IF c.ID # "" THEN {"jti"} ELSE {}) \cup
    (IF c.UserID # "" THEN {"user_id"} ELSE {}) \cup
    (IF c.Username # "" THEN {"username"} ELSE {}) \cup
    (IF c.Email # "" THEN {"email"} ELSE {}) \cup
    (IF Len(c.Roles) > 0 THEN {"roles"} ELSE {}) \cup
    (IF c.Custom # {} THEN {"custom"} ELSE {})

MarshalClaims(c) ==
    [k \in PayloadKeys(c) |->
        CASE k = "iss" -> c.Issuer
          [] k = "sub" -> c.Subject
          [] k = "aud" -> c.Audience
          [] k = "exp" -> c.ExpiresAt \div TicksPerSecond
          [] k = "nbf" -> c.NotBefore \div TicksPerSecond
          [] k = "iat" -> c.IssuedAt \div TicksPerSecond
          [] k = "jti" -> c.ID
          [] k = "user_id" -> c.UserID
          [] k = "username" -> c.Username
          [] k = "email" -> c.Email
          [] k = "roles" -> c.Roles
          [] k = "custom" -> c.Custom]

\* json.Unmarshal into &Claims{}: a missing key leaves the zero value.
UnmarshalClaims(p) ==
    LET str(k) == IF k \in DOMAIN p THEN p[k] ELSE ""
        date(k) == IF k \in DOMAIN p THEN p[k] * TicksPerSecond ELSE NoDate
    IN  [Issuer |-> str("iss"), Subject |-> str("sub"),
         Audience |-> IF "aud" \in DOMAIN p THEN p["aud"] ELSE <<>>,
         ExpiresAt |-> date("exp"), NotBefore |-> date("nbf"),
         IssuedAt |-> date("iat"), ID |-> str("jti"),
         UserID |-> str("user_id"), Username |-> str("username"),
         Email |-> str("email"),
         Roles |-> IF "roles" \in DOMAIN p THEN p["roles"] ELSE <<>>,
         Custom |-> IF "custom" \in DOMAIN p THEN p["custom"] ELSE {}]

\* ---------------------------------------------------------------- tokens
\* A compact token: the number of dot-separated segments, the header
\* segment (how it decodes, and its "alg"), the payload segment (how it
\* decodes, the JSON object it holds, and which of the base64 texts of
\* those bytes it is) and the signature segment.  A signature records the
\* method and key that made it and the header and payload text it covers.
DecodeOK == "ok"
DecodeBase64 == "base64"
DecodeJSONEnd == "json-end"
DecodeJSONChar == "json-char"
DecodeJSONLiteral == "json-literal"
DecodeFailures == {DecodeBase64, DecodeJSONEnd, DecodeJSONChar, DecodeJSONLiteral}

EmptyToken == [empty |-> TRUE]

Header(alg) == [dec |-> DecodeOK, alg |-> alg]
Payload(fields) == [dec |-> DecodeOK, fields |-> fields, alt |-> 0]
Signature(method, key, hdr, pay) ==
    [dec |-> TRUE, alg |-> method, k |-> key, hdr |-> hdr, pay |-> pay]
Token(hdr, pay, sig) == [nseg |-> 3, hdr |-> hdr, pay |-> pay, sig |-> sig]

\* SigningMethod.Sign: HMAC takes []byte, RSA a *rsa.PrivateKey.
SignKeyOK(method, key) ==
    \/ method \in HMACAlgorithms /\ key.t = "bytes"
    \/ method \in RSAAlgorithms /\ key.t = "rsapriv"

\* token.SignedString(key) of jwt.NewWithClaims(method, claims).
SignedString(method, claims, key) ==
    LET hdr == Header(method)
        pay == Payload(MarshalClaims(claims))
    IN  IF SignKeyOK(method, key)
        THEN [tok |-> Token(hdr, pay, Signature(method, key, hdr, pay)), ok |-> TRUE]
        ELSE [tok |-> EmptyToken, ok |-> FALSE]

\* SigningMethod.Verify: <<>> when the signature is the method's signature
\* of the text under the key's counterpart, else the error text.
Verify(method, key, hdr, pay, sig) ==
    IF method \in HMACAlgorithms THEN
        IF key.t # "bytes" THEN ErrInvalidKeyType
        ELSE IF sig.alg = method /\ sig.k = Bytes(key.v)
                /\ sig.hdr = hdr /\ sig.pay = pay
        THEN <<>> ELSE ErrSignatureInvalid
    ELSE IF method \in RSAAlgorithms THEN
        IF key.t # "rsapub" THEN ErrInvalidKeyType
        ELSE IF sig.alg = method /\ sig.k = RSAPrivate(key.v)
                /\ sig.hdr = hdr /\ sig.pay = pay
        THEN <<>> ELSE ErrRSAVerification
    ELSE ErrInvalidKeyType

\* The error base64 or encoding/json reports for a segment that does not decode.
DecodeError(dec) ==
    CASE dec = DecodeBase64 -> ErrBase64Corrupt
      [] dec = DecodeJSONEnd -> ErrJSONUnexpectedEnd
      [] dec = DecodeJSONChar -> ErrJSONInvalidChar
      [] dec = DecodeJSONLiteral -> ErrJSONBadLiteral

\* The texts of the errors jwt.ParseWithClaims returns, as newError builds
\* them: the sentinel, the message, the cause.
TextInvalidSegments == JoinParts(<<ErrTokenMalformed, MsgInvalidSegments>>)
TextHeader ==
    [d \in DecodeFailures |->
        JoinParts(<<ErrTokenMalformed,
                    IF d = DecodeBase64 THEN MsgDecodeHeader ELSE MsgJSONHeader,
                    DecodeError(d)>>)]
TextClaim ==
    [d \in DecodeFailures |->
        JoinParts(<<ErrTokenMalformed,
                    IF d = DecodeBase64 THEN MsgDecodeClaim ELSE MsgJSONClaim,
                    DecodeError(d)>>)]
TextAlgUnspecified == JoinParts(<<ErrTokenUnverifiable, MsgAlgUnspecified>>)
TextAlgUnavailable == JoinParts(<<ErrTokenUnverifiable, MsgAlgUnavailable>>)
TextSignatureSegment ==
    JoinParts(<<ErrTokenMalformed, MsgDecodeSignature, ErrBase64Corrupt>>)
\* The keyfunc's error is the *AppError of errors.Unauthorized, whose Error()
\* is its Message.
TextKeyfunc == JoinParts(<<ErrTokenUnverifiable, MsgKeyfunc, MsgInvalidTokenAlgorithm>>)
VerifyErrors == {ErrSignatureInvalid, ErrRSAVerification, ErrInvalidKeyType}
TextSignature == [e \in VerifyErrors |-> JoinParts(<<ErrTokenSignatureInvalid, e>>)]
ClaimsErrors ==
    {ErrTokenExpired, ErrTokenNotValidYet, ErrTokenExpired \o JoinSep \o ErrTokenNotValidYet}
TextClaims == [e \in ClaimsErrors |-> JoinParts(<<ErrTokenInvalidClaims, e>>)]

\* Parser.ParseUnverified: the segment count, the header, the claims, then the
\* lookup of the header's signing method.  <<>> is no error.
ParseUnverified(tok) ==
    IF tok.nseg # 3 THEN TextInvalidSegments
    ELSE IF tok.hdr.dec # DecodeOK THEN TextHeader[tok.hdr.dec]
    ELSE IF tok.pay.dec # DecodeOK THEN TextClaim[tok.pay.dec]
    ELSE IF tok.hdr.alg = NoAlg THEN TextAlgUnspecified
    ELSE IF tok.hdr.alg \notin RegisteredMethods THEN TextAlgUnavailable
    ELSE <<>>

\* A Keyfunc that does not look at the header's method.
KeyfuncDropsAlgorithmCheck(m, tok) == [ok |-> TRUE, key |-> getVerificationKey(m)]

\* The Keyfunc ParseToken passes: the header's method against the configured
\* algorithm, then the manager's verification key.  ok is a nil error.
Keyfunc(m, tok) ==
    IF tok.hdr.alg # m.Algorithm
    THEN [ok |-> FALSE, key |-> Nil]
    ELSE [ok |-> TRUE, key |-> getVerificationKey(m)]

\* An expiry check that still accepts at the instant of expires-at.
verifyExpiresAtInclusive(claims, now) ==
    claims.ExpiresAt = NoDate \/ now <= claims.ExpiresAt

\* A parser built WithoutClaimsValidation.
ValidateSkipped(claims, now) == <<>>

\* Validator.Validate with the default validator (no leeway, no expected
\* issuer, audience or subject, issued-at not verified): every failed check is
\* collected and the errors are joined.
verifyExpiresAt(claims, now) ==
    claims.ExpiresAt = NoDate \/ now < claims.ExpiresAt

verifyNotBefore(claims, now) ==
    claims.NotBefore = NoDate \/ now >= claims.NotBefore

Validate(claims, now) ==
    LET e1 == IF verifyExpiresAt(claims, now) THEN <<>> ELSE <<ErrTokenExpired>>
        e2 == IF verifyNotBefore(claims, now) THEN <<>> ELSE <<ErrTokenNotValidYet>>
        errs == e1 \o e2
    IN  IF Len(errs) = 0 THEN <<>>
        ELSE IF Len(errs) = 1 THEN errs[1]
        ELSE errs[1] \o JoinSep \o errs[2]

\* jwt.ParseWithClaims(tokenString, &Claims{}, keyfunc) at time now.
ParseWithClaims(m, tok, now) ==
    LET e0 == ParseUnverified(tok)
        kf == Keyfunc(m, tok)
        claims == UnmarshalClaims(tok.pay.fields)
    IN  IF e0 # <<>> THEN [err |-> e0, claims |-> Nil]
        ELSE IF ~tok.sig.dec THEN [err |-> TextSignatureSegment, claims |-> Nil]
        ELSE IF ~kf.ok THEN [err |-> TextKeyfunc, claims |-> Nil]
        ELSE LET ve == Verify(tok.hdr.alg, kf.key, tok.hdr, tok.pay, tok.sig)
                 ce == Validate(claims, now)
             IN  IF ve # <<>> THEN [err |-> TextSignature[ve], claims |-> Nil]
                 ELSE IF ce # <<>> THEN [err |-> TextClaims[ce], claims |-> Nil]
                 ELSE [err |-> <<>>, claims |-> claims]

\* Every text ParseWithClaims can return.
ParseErrors ==
    {TextInvalidSegments, TextAlgUnspecified, TextAlgUnavailable,
     TextSignatureSegment, TextKeyfunc}
    \cup {TextHeader[d] : d \in DecodeFailures}
    \cup {TextClaim[d] : d \in DecodeFailures}
    \cup {TextSignature[e] : e \in VerifyErrors}
    \cup {TextClaims[e] : e \in ClaimsErrors}

\* ------------------------------------------------------- application errors
CodeBadRequest == "BAD_REQUEST"
CodeUnauthorized == "UNAUTHORIZED"
CodeInvalidToken == "INVALID_TOKEN"
CodeTokenExpired == "TOKEN_EXPIRED"
CodeInternal == "INTERNAL_ERROR"

\* An *AppError as its Code and Message; NoError is the nil error.
AppError(code, message) == [code |-> code, msg |-> message]
NoError == AppError("", "")

\* handleParseError: the parse error's text searched for the substrings, in
\* the order written.
handleParseError(errMsg) ==
    IF contains(errMsg, SubTokenIsExpired) \/ contains(errMsg, SubExp)
    THEN AppError(CodeTokenExpired, "token has expired")
    ELSE IF contains(errMsg, SubNotValidYet) \/ contains(errMsg, SubNbf)
    THEN AppError(CodeUnauthorized, "token is not valid yet")
    ELSE IF contains(errMsg, SubUsedBeforeIssued) \/ contains(errMsg, SubIat)
    THEN AppError(CodeUnauthorized, "token used before issued")
    ELSE AppError(CodeInvalidToken, "failed to parse token")

\* handleParseError on each text ParseWithClaims can return.
ParseErrorResult == [e \in ParseErrors |-> handleParseError(e)]

\* ---------------------------------------------------------- JWTManager
\* JWTManager.ParseToken at time now: [claims, err].
\* A ParseToken that returns the claims the library accepted without looking
\* at their issuer.
ParseTokenSkipsIssuer(m, tokenString, now) ==
    IF tokenString = EmptyToken
    THEN [claims |-> Nil, err |-> AppError(CodeBadRequest, "token cannot be empty")]
    ELSE LET p == ParseWithClaims(m, tokenString, now)
         IN  IF p.err # <<>>
             THEN [claims |-> Nil, err |-> ParseErrorResult[p.err]]
             ELSE IF ~(\E i \in 1..Len(p.claims.Audience) : p.claims.Audience[i] = m.Audience)
             THEN [claims |-> Nil, err |-> AppError(CodeUnauthorized, "invalid token audience")]
             ELSE [claims |-> p.claims, err |-> NoError]

ParseToken(m, tokenString, now) ==
    IF tokenString = EmptyToken
    THEN [claims |-> Nil, err |-> AppError(CodeBadRequest, "token cannot be empty")]
    ELSE LET p == ParseWithClaims(m, tokenString, now)
         IN  IF p.err # <<>>
             THEN [claims |-> Nil, err |-> ParseErrorResult[p.err]]
             ELSE IF p.claims.Issuer # m.Issuer
             THEN [claims |-> Nil, err |-> AppError(CodeUnauthorized, "invalid token issuer")]
             ELSE IF ~(\E i \in 1..Len(p.claims.Audience) : p.claims.Audience[i] = m.Audience)
             THEN [claims |-> Nil, err |-> AppError(CodeUnauthorized, "invalid token audience")]
             ELSE [claims |-> p.claims, err |-> NoError]

\* An expiry that ignores the token type.
\* expiry, were it left at the zero duration for every token type.
expiryNeverSet(m, tokenType) == 0

expiryAlwaysAccess(m, tokenType) == m.AccessTokenExpiry

\* The expiry GenerateToken picks: the access one for the access type, the
\* refresh one for anything else.
expiry(m, tokenType) ==
    IF tokenType = AccessToken THEN m.AccessTokenExpiry ELSE m.RefreshTokenExpiry

\* A GenerateToken that stamps a copy and leaves the caller's object alone.
GenerateTokenOnCopy(m, claims, tokenType, now) ==
    IF claims = Nil
    THEN [tok |-> EmptyToken, err |-> AppError(CodeBadRequest, "claims cannot be nil"),
          obj |-> Nil]
    ELSE LET stamped == [claims EXCEPT !.Issuer = m.Issuer,
                                       !.Audience = <<m.Audience>>,
                                       !.IssuedAt = NewNumericDate(now),
                                       !.ExpiresAt = NewNumericDate(now + expiry(m, tokenType)),
                                       !.NotBefore = NewNumericDate(now)]
             s == SignedString(getSigningMethod(m), stamped, getSigningKey(m))
         IN  [tok |-> s.tok, err |-> NoError, obj |-> claims]

\* JWTManager.GenerateToken at time now: [tok, err, obj], obj being the
\* caller's claims object after the call (it is stamped in place).
GenerateToken(m, claims, tokenType, now) ==
    IF claims = Nil
    THEN [tok |-> EmptyToken, err |-> AppError(CodeBadRequest, "claims cannot be nil"),
          obj |-> Nil]
    ELSE LET stamped == [claims EXCEPT !.Issuer = m.Issuer,
                                       !.Audience = <<m.Audience>>,
                                       !.IssuedAt = NewNumericDate(now),
                                       !.ExpiresAt = NewNumericDate(now + expiry(m, tokenType)),
                                       !.NotBefore = NewNumericDate(now)]
             s == SignedString(getSigningMethod(m), stamped, getSigningKey(m))
         IN  IF ~s.ok
             THEN [tok |-> EmptyToken,
                   err |-> AppError(CodeInternal, "failed to sign JWT token"),
                   obj |-> stamped]
             ELSE [tok |-> s.tok, err |-> NoError, obj |-> stamped]

\* A RefreshToken that mints a token of the refresh type.
RefreshTokenOfRefreshType(m, refreshToken, now) ==
    LET p == ParseToken(m, refreshToken, now)
    IN  IF p.err # NoError THEN [tok |-> EmptyToken, err |-> p.err]
        ELSE LET newClaims == [ZeroClaims EXCEPT !.UserID = p.claims.UserID,
                                                 !.Username = p.claims.Username,
                                                 !.Email = p.claims.Email,
                                                 !.Roles = p.claims.Roles,
                                                 !.Custom = p.claims.Custom]
                 g == GenerateToken(m, newClaims, RefreshToken, now)
             IN  [tok |-> g.tok, err |-> g.err]

\* A RefreshToken that verifies the token as of the start of time.
RefreshTokenOfAtTimeZero(m, refreshToken, now) ==
    LET p == ParseToken(m, refreshToken, 0)
    IN  IF p.err # NoError THEN [tok |-> EmptyToken, err |-> p.err]
        ELSE LET g == GenerateToken(m, [ZeroClaims EXCEPT !.UserID = p.claims.UserID],
                                    AccessToken, now)
             IN  [tok |-> g.tok, err |-> g.err]

\* JWTManager.RefreshToken at time now: [tok, err].
RefreshTokenOf(m, refreshToken, now) ==
    LET p == ParseToken(m, refreshToken, now)
    IN  IF p.err # NoError THEN [tok |-> EmptyToken, err |-> p.err]
        ELSE LET newClaims == [ZeroClaims EXCEPT !.UserID = p.claims.UserID,
                                                 !.Username = p.claims.Username,
                                                 !.Email = p.claims.Email,
                                                 !.Roles = p.claims.Roles,
                                                 !.Custom = p.claims.Custom]
                 g == GenerateToken(m, newClaims, AccessToken, now)
             IN  [tok |-> g.tok, err |-> g.err]

\* JWTManager.GenerateTokenPair at time now: [access, refresh, err, obj].  Both
\* calls stamp the caller's one claims object, the second over the first.
GenerateTokenPair(m, claims, now) ==
    LET a == GenerateToken(m, claims, AccessToken, now)
        r == GenerateToken(m, a.obj, RefreshToken, now)
    IN  IF a.err # NoError
        THEN [access |-> EmptyToken, refresh |-> EmptyToken, err |-> a.err, obj |-> a.obj]
        ELSE IF r.err # NoError
        THEN [access |-> EmptyToken, refresh |-> EmptyToken, err |-> r.err, obj |-> r.obj]
        ELSE [access |-> a.tok, refresh |-> r.tok, err |-> NoError, obj |-> r.obj]

\* ------------------------------------------------------------- inputs
BaseAccessTTL == MaxTTL - 1
BaseRefreshTTL == MaxTTL

MkConfig(alg, secret, priv, pub, iss, aud, access, refresh) ==
    [Secret |-> secret, PrivateKey |-> priv, PublicKey |-> pub,
     Algorithm |-> alg, Issuer |-> iss, Audience |-> aud,
     AccessTokenExpiry |-> access, RefreshTokenExpiry |-> refresh]

\* The configurations handed to NewJWTManager: every algorithm (and two that
\* are not supported) with every key setup, an RSA public key that is not the
\* private key's included, and with an access expiry of zero or not; every
\* issuer and audience; every pair of expiry durations; and nil.
ConfigInputs ==
    {MkConfig(alg, s, Nil, Nil, "svc", "api", a, BaseRefreshTTL) :
        alg \in HMACAlgorithms \cup {"ES256", ""}, s \in {"", "s1"},
        a \in {0, BaseAccessTTL}}
    \cup
    {MkConfig(alg, "", p, q, "svc", "api", a, BaseRefreshTTL) :
        alg \in RSAAlgorithms, p \in {Nil, RSAPrivate("k1")},
        q \in {Nil, RSAPublic("k1"), RSAPublic("k2")},
        a \in {0, BaseAccessTTL}}
    \cup
    {MkConfig(AlgorithmHS256, "s1", Nil, Nil, iss, aud, BaseAccessTTL, BaseRefreshTTL) :
        iss \in Issuers, aud \in Audiences}
    \cup
    {MkConfig(AlgorithmHS256, "s1", Nil, Nil, "svc", "api", a, r) :
        a \in TTLs, r \in TTLs}
    \cup {Nil}

\* The claims objects callers pass to GenerateToken: one with identity fields
\* only, one whose registered fields the caller has already set, and nil.
ClaimsInputs ==
    {MkClaims("", "", <<>>, NoDate, NoDate, NoDate,
              "u1", "alice", "a@x", <<"admin", "user">>, {<<"dept", "eng">>}),
     MkClaims("evil", "subj", <<"other-api">>, MaxNow + MaxTTL + 1, MaxNow, MaxNow,
              "u2", "", "", <<>>, {}),
     Nil}

\* Whole-second dates a token made elsewhere may carry, or none.
DateChoices == {NoDate} \cup {s * TicksPerSecond : s \in 1..(MaxNow \div TicksPerSecond)}

\* The key that makes signatures the manager's verification key accepts.
CounterpartKey(m) ==
    IF m.Algorithm \in RSAAlgorithms THEN RSAPrivate(m.PublicKey.v)
    ELSE Bytes(m.Secret)

SignedToken(method, key, claims) ==
    LET hdr == Header(method)
        pay == Payload(MarshalClaims(claims))
    IN  Token(hdr, pay, Signature(method, key, hdr, pay))

\* Tokens made elsewhere under the manager's own algorithm and key: any
\* issuer, audience, not-before and expires-at.
CraftedTokens(m) ==
    {SignedToken(m.Algorithm, CounterpartKey(m),
                 MkClaims(iss, "", <<aud>>, exp, nbf, NoDate, "u3", "", "", <<>>, {})) :
        iss \in Issuers, aud \in Audiences, exp \in DateChoices, nbf \in DateChoices}

\* Tokens made elsewhere under the manager's own algorithm and key, without
\* a validity window, addressed to two audiences or to none.
AudienceLists == {<<"other-api", "api">>, <<>>}

MultiAudienceTokens(m) ==
    {SignedToken(m.Algorithm, CounterpartKey(m),
                 MkClaims(iss, "", auds, NoDate, NoDate, NoDate, "u3", "", "", <<>>, {})) :
        iss \in Issuers, auds \in AudienceLists}

\* Tokens made elsewhere under any algorithm and key, the manager's secret
\* and the bytes of its public key included: one with the manager's issuer
\* and audience and no validity window, one with another issuer and an
\* expires-at of one second.
SigningKeys(alg) ==
    IF alg \in HMACAlgorithms
    THEN {Bytes("s1"), Bytes("s2"), Bytes("pem-k1")}
    ELSE {RSAPrivate("k1"), RSAPrivate("k2")}

OtherClaims(m) ==
    {MkClaims(m.Issuer, "", <<m.Audience>>, NoDate, NoDate, NoDate,
              "u3", "", "", <<>>, {}),
     MkClaims(CHOOSE iss \in Issuers : iss # m.Issuer, "", <<m.Audience>>,
              TicksPerSecond, NoDate, NoDate, "u3", "", "", <<>>, {})}

OtherSignedTokens(m) ==
    UNION {{SignedToken(alg, key, claims) :
               key \in SigningKeys(alg), claims \in OtherClaims(m)} :
           alg \in SupportedAlgorithms}

\* Tokens that are not well formed or name no usable method: a wrong number
\* of segments, a header, payload or signature segment that does not decode,
\* and a header whose "alg" is absent, unregistered, or registered but not
\* one of the six.  Everything else about them is as the manager would sign.
MalformedTokens(m) ==
    LET claims == MkClaims(m.Issuer, "", <<m.Audience>>, NoDate, NoDate, NoDate,
                           "u3", "", "", <<>>, {})
        good == SignedToken(m.Algorithm, CounterpartKey(m), claims)
    IN  {[good EXCEPT !.nseg = n] : n \in {2, 4}}
        \cup {[good EXCEPT !.hdr.dec = d] : d \in DecodeFailures}
        \cup {[good EXCEPT !.pay.dec = d] : d \in DecodeFailures}
        \cup {[good EXCEPT !.sig.dec = FALSE]}
        \cup {[good EXCEPT !.hdr.alg = a] :
                a \in OtherRegisteredMethods \cup {UnregisteredAlg, NoAlg}}

\* What one changed character does to a payload segment: it no longer
\* decodes as base64, or as JSON (in each of the ways encoding/json reports),
\* or it decodes to a different object (here: another user id), or it is
\* another base64 text of the same bytes.
TamperedPayloads(pay) ==
    {[pay EXCEPT !.dec = d] : d \in DecodeFailures}
    \cup {[pay EXCEPT !.fields = [k \in DOMAIN pay.fields \cup {"user_id"} |->
                                    IF k = "user_id" THEN "admin" ELSE pay.fields[k]]]}
    \cup {[pay EXCEPT !.alt = 1]}

\* -------------------------------------------------------------- Encryptor
\* Bytes are kept symbolic.  A key is its length and the random bytes it was
\* filled with; a string or []byte plaintext is a sequence of plain bytes,
\* here of every length up to MaxPlain, its bytes alternating from either
\* of the two.
NonceSize == 12
TagSize == 16
AESKeySizes == {16, 24, 32}
PlainBytes == {"h", "i"}
Plaintexts ==
    {[i \in 1..n |-> IF (i + k) % 2 = 0 THEN "h" ELSE "i"] :
        n \in 0..MaxPlain, k \in {0, 1}}

Key(size, id) == [size |-> size, id |-> id]
NoKey == Key(0, "")

\* One byte of an envelope: a nonce byte of the r-th value the random source
\* can give, a ciphertext byte (the plaintext byte at its place under a key
\* and a nonce), a tag byte (over the whole plaintext under a key and a
\* nonce), or a byte with another value than it had ("x").
Byte(kind, key, r, pos, val) ==
    [kind |-> kind, key |-> key, nonce |-> r, pos |-> pos, val |-> val]

\* io.ReadFull(rand.Reader, nonce): the r-th value of NonceSize bytes.
Nonce(r) == [i \in 1..NonceSize |-> Byte("n", NoKey, r, i, <<>>)]
NonceOf(nonce) ==
    IF \E r \in 1..MaxNonce : nonce = Nonce(r)
    THEN CHOOSE r \in 1..MaxNonce : nonce = Nonce(r)
    ELSE 0

\* aes.NewCipher(key): only keys of an AES size make a cipher.
NewCipherOK(key) == key.size \in AESKeySizes

\* gcm.Seal(dst, nonce, plaintext, nil): dst, then one ciphertext byte for
\* each plaintext byte, then the tag.
Seal(dst, key, nonce, plaintext) ==
    LET r == NonceOf(nonce)
    IN  dst \o [i \in 1..Len(plaintext) |-> Byte("c", key, r, i, <<plaintext[i]>>)]
            \o [j \in 1..TagSize |-> Byte("t", key, r, j, plaintext)]

\* A gcm.Open that does not look at the tag.
OpenIgnoresTag(key, nonce, data) ==
    IF Len(data) < TagSize THEN [ok |-> FALSE, plaintext |-> <<>>]
    ELSE LET n == Len(data) - TagSize
         IN  IF \A i \in 1..n : data[i].kind = "c" /\ data[i].key = key
             THEN [ok |-> TRUE, plaintext |-> [i \in 1..n |-> data[i].val[1]]]
             ELSE [ok |-> FALSE, plaintext |-> <<>>]

\* gcm.Open(nil, nonce, data, nil): the plaintext when data is what Seal
\* made of it under this key and this nonce, else the one error
\* "cipher: message authentication failed".
Open(key, nonce, data) ==
    IF Len(data) < TagSize THEN [ok |-> FALSE, plaintext |-> <<>>]
    ELSE LET n == Len(data) - TagSize
             r == NonceOf(nonce)
         IN  IF /\ r # 0
                /\ \A i \in 1..n :
                      /\ data[i].kind = "c" /\ data[i].key = key
                      /\ data[i].nonce = r /\ data[i].pos = i
                /\ LET p == [i \in 1..n |-> data[i].val[1]]
                   IN  \A j \in 1..TagSize : data[n + j] = Byte("t", key, r, j, p)
             THEN [ok |-> TRUE, plaintext |-> [i \in 1..n |-> data[i].val[1]]]
             ELSE [ok |-> FALSE, plaintext |-> <<>>]

\* base64: a text is the bytes it encodes and whether it ends in padding;
\* StdEncoding pads what is not a multiple of three bytes, RawStdEncoding
\* never pads, and each refuses the other's text where they differ.
StdEncoding == "std"
RawStdEncoding == "raw"
EncodeToString(encoding, bytes) ==
    [valid |-> TRUE, pad |-> encoding = StdEncoding /\ Len(bytes) % 3 # 0,
     bytes |-> bytes]
NotBase64 == [valid |-> FALSE, pad |-> FALSE, bytes |-> <<>>]
EmptyString == EncodeToString(StdEncoding, <<>>)
DecodeString(encoding, text) ==
    IF text.valid /\ text.pad = (encoding = StdEncoding /\ Len(text.bytes) % 3 # 0)
    THEN [ok |-> TRUE, bytes |-> text.bytes]
    ELSE [ok |-> FALSE, bytes |-> <<>>]

\* What an Encryptor operation returns: a string (text), a []byte (raw) or a
\* key, and an error; panic when the call did not return.
EOut(text, raw, key, err, panic) ==
    [text |-> text, raw |-> raw, key |-> key, err |-> err, panic |-> panic]
EError(code, message) ==
    EOut(EmptyString, <<>>, NoKey, AppError(code, message), FALSE)
Panic == EOut(EmptyString, <<>>, NoKey, NoError, TRUE)
ErrAuthentication ==
    AppError(CodeBadRequest, "failed to decrypt: invalid ciphertext or key")

\* NewEncryptor(config): the encryptor is its config's key.
NewEncryptorOf(config) ==
    IF config = Nil THEN EError(CodeBadRequest, "encryption config cannot be nil")
    ELSE IF config.Key.size \notin {16, 24, 32}
    THEN EError(CodeBadRequest, "encryption key must be 16, 24, or 32 bytes")
    ELSE EOut(EmptyString, <<>>, config.Key, NoError, FALSE)

\* An EncryptBytes that makes its nonce from the plaintext.
EncryptBytesNonceOfPlaintext(e, plaintext, r) ==
    IF Len(plaintext) = 0 THEN EError(CodeBadRequest, "plaintext cannot be empty")
    ELSE EOut(EmptyString,
              Seal(Nonce(Len(plaintext)), e, Nonce(Len(plaintext)), plaintext),
              NoKey, NoError, FALSE)

\* (*Encryptor).EncryptBytes(plaintext), r the value the random source gives.
EncryptBytes(e, plaintext, r) ==
    IF Len(plaintext) = 0 THEN EError(CodeBadRequest, "plaintext cannot be empty")
    ELSE IF ~NewCipherOK(e) THEN EError(CodeInternal, "failed to create cipher")
    ELSE EOut(EmptyString, Seal(Nonce(r), e, Nonce(r), plaintext), NoKey, NoError, FALSE)

\* (*Encryptor).Encrypt(plaintext)
Encrypt(e, plaintext, r) ==
    IF plaintext = <<>> THEN EError(CodeBadRequest, "plaintext cannot be empty")
    ELSE IF ~NewCipherOK(e) THEN EError(CodeInternal, "failed to create cipher")
    ELSE EOut(EncodeToString(StdEncoding, Seal(Nonce(r), e, Nonce(r), plaintext)),
              <<>>, NoKey, NoError, FALSE)

\* A DecryptBytes that splits the nonce off without looking at the length.
DecryptBytesUnchecked(e, ciphertext) ==
    IF Len(ciphertext) = 0 THEN EError(CodeBadRequest, "ciphertext cannot be empty")
    ELSE IF Len(ciphertext) < NonceSize THEN Panic
    ELSE LET o == Open(e, SubSeq(ciphertext, 1, NonceSize),
                       SubSeq(ciphertext, NonceSize + 1, Len(ciphertext)))
         IN  IF ~o.ok THEN EOut(EmptyString, <<>>, NoKey, ErrAuthentication, FALSE)
             ELSE EOut(EmptyString, o.plaintext, NoKey, NoError, FALSE)

\* (*Encryptor).DecryptBytes(ciphertext)
DecryptBytes(e, ciphertext) ==
    IF Len(ciphertext) = 0 THEN EError(CodeBadRequest, "ciphertext cannot be empty")
    ELSE IF ~NewCipherOK(e) THEN EError(CodeInternal, "failed to create cipher")
    ELSE IF Len(ciphertext) < NonceSize
    THEN EError(CodeBadRequest, "ciphertext too short")
    ELSE LET o == Open(e, SubSeq(ciphertext, 1, NonceSize),
                       SubSeq(ciphertext, NonceSize + 1, Len(ciphertext)))
         IN  IF ~o.ok THEN EOut(EmptyString, <<>>, NoKey, ErrAuthentication, FALSE)
             ELSE EOut(EmptyString, o.plaintext, NoKey, NoError, FALSE)

\* A Decrypt that decodes unpadded base64.
DecryptUnpadded(e, encodedCiphertext) ==
    IF encodedCiphertext = EmptyString
    THEN EError(CodeBadRequest, "ciphertext cannot be empty")
    ELSE LET d == DecodeString(RawStdEncoding, encodedCiphertext)
         IN  IF ~d.ok THEN EError(CodeBadRequest, "failed to decode ciphertext")
             ELSE IF Len(d.bytes) < NonceSize
             THEN EError(CodeBadRequest, "ciphertext too short")
             ELSE LET o == Open(e, SubSeq(d.bytes, 1, NonceSize),
                                SubSeq(d.bytes, NonceSize + 1, Len(d.bytes)))
                  IN  IF ~o.ok
                      THEN EOut(EmptyString, <<>>, NoKey, ErrAuthentication, FALSE)
                      ELSE EOut(EmptyString, o.plaintext, NoKey, NoError, FALSE)

\* (*Encryptor).Decrypt(encodedCiphertext); the plaintext string is returned
\* in the raw field.
Decrypt(e, encodedCiphertext) ==
    IF encodedCiphertext = EmptyString
    THEN EError(CodeBadRequest, "ciphertext cannot be empty")
    ELSE LET d == DecodeString(StdEncoding, encodedCiphertext)
         IN  IF ~d.ok THEN EError(CodeBadRequest, "failed to decode ciphertext")
             ELSE IF ~NewCipherOK(e) THEN EError(CodeInternal, "failed to create cipher")
             ELSE IF Len(d.bytes) < NonceSize
             THEN EError(CodeBadRequest, "ciphertext too short")
             ELSE LET o == Open(e, SubSeq(d.bytes, 1, NonceSize),
                                SubSeq(d.bytes, NonceSize + 1, Len(d.bytes)))
                  IN  IF ~o.ok
                      THEN EOut(EmptyString, <<>>, NoKey, ErrAuthentication, FALSE)
                      ELSE EOut(EmptyString, o.plaintext, NoKey, NoError, FALSE)

\* A GenerateAESKey that takes its size in bits.
GenerateAESKeyInBits(size, id) ==
    IF size \notin {128, 192, 256}
    THEN EError(CodeBadRequest, "key size must be 16, 24, or 32 bytes")
    ELSE EOut(EmptyString, <<>>, Key(size \div 8, id), NoError, FALSE)

\* GenerateAESKey(size), id the bytes the random source gives.
GenerateAESKey(size, id) ==
    IF size # 16 /\ size # 24 /\ size # 32
    THEN EError(CodeBadRequest, "key size must be 16, 24, or 32 bytes")
    ELSE EOut(EmptyString, <<>>, Key(size, id), NoError, FALSE)

GenerateAES256Key(id) == GenerateAESKey(32, id)
GenerateAES192Key(id) == GenerateAESKey(24, id)
GenerateAES128Key(id) == GenerateAESKey(16, id)

\* ----------------------------------------------------------------- Hasher
\* A hash string is a sequence of pieces: the characters '$', '2' and the
\* bcrypt minor version as pieces of their own, and every run of other
\* characters that the code reads as one (a word, "v=19", "m=8,t=2,p=1", a
\* base64 text, a bcrypt cost, a bcrypt salt and digest) as one piece of
\* the n characters it is written with.  A piece that is not a character
\* holds no '$' and does not begin with '2'.
Piece(kind, s, n, nums, bytes, pad) ==
    [kind |-> kind, s |-> s, n |-> n, nums |-> nums, bytes |-> bytes, pad |-> pad]
Chr(c) == Piece("chr", c, 1, <<>>, <<>>, FALSE)
Word(s) == Piece("word", s, Len(s), <<>>, <<>>, FALSE)

RECURSIVE Digits(_)
Digits(k) == IF k < 10 THEN 1 ELSE 1 + Digits(k \div 10)

\* fmt.Sprintf("v=%d", v) and fmt.Sprintf("m=%d,t=%d,p=%d", m, t, p)
VersionText(v) == Piece("v", "", 2 + Digits(v), <<v>>, <<>>, FALSE)
ParamsText(m, t, p) ==
    Piece("params", "", 8 + Digits(m) + Digits(t) + Digits(p), <<m, t, p>>,
          <<>>, FALSE)

\* base64 text as part of a hash string; the empty text is no characters.
Base64Text(encoding, bytes) ==
    IF bytes = <<>> THEN <<>>
    ELSE <<Piece("b64", "",
                 IF encoding = StdEncoding THEN ((Len(bytes) + 2) \div 3) * 4
                 ELSE (Len(bytes) * 8 + 5) \div 6,
                 <<>>, bytes, EncodeToString(encoding, bytes).pad)>>

\* len(hash)
RECURSIVE StrLen(_)
StrLen(str) == IF str = <<>> THEN 0 ELSE Head(str).n + StrLen(Tail(str))

AlgorithmBcrypt == "bcrypt"
AlgorithmArgon2 == "argon2"

HashConfig(cost, time, memory, threads, keyLen, saltLen) ==
    [BcryptCost |-> cost, Argon2Time |-> time, Argon2Memory |-> memory,
     Argon2Threads |-> threads, Argon2KeyLen |-> keyLen, Argon2SaltLen |-> saltLen]

DefaultCost == 10
MinCost == 4
MaxCost == 31
DefaultHashConfig == HashConfig(DefaultCost, 1, 64 * 1024, 4, 32, 16)

\* NewHasher(config): the hasher is its config; nothing in it is checked.
NewHasherOf(config) == IF config = Nil THEN DefaultHashConfig ELSE config

\* A byte of a salt (the r-th value of the random source) or of a derived
\* key (of the salt and inputs it was derived from).
HByte(kind, r, pos, salt, of) ==
    [kind |-> kind, r |-> r, pos |-> pos, salt |-> salt, of |-> of]
Salt(r, saltLen) == [i \in 1..saltLen |-> HByte("salt", r, i, <<>>, <<>>)]

\* What a Hasher operation returns: a string, a bool and an error; panic
\* when the call did not return.
HOut(text, matched, err, panic) ==
    [text |-> text, matched |-> matched, err |-> err, panic |-> panic]
HError(code, message) == HOut(<<>>, FALSE, AppError(code, message), FALSE)
HPanic == HOut(<<>>, FALSE, NoError, TRUE)

\* argon2.IDKey(password, salt, time, memory, threads, keyLen): panics for
\* time < 1 and for threads < 1; the memory is rounded down to a multiple of
\* 4 * threads blocks and is at least 8 * threads.  Otherwise keyLen bytes
\* that depend on every input (the model never asks for a key of no bytes).
SyncPoints == 4
ArgonVersion == 19
ArgonMemory(memory, threads) ==
    LET blocks == (memory \div (SyncPoints * threads)) * (SyncPoints * threads)
    IN  IF blocks < 2 * SyncPoints * threads THEN 2 * SyncPoints * threads
        ELSE blocks
IDKey(password, salt, time, memory, threads, keyLen) ==
    IF time < 1 \/ threads < 1 THEN [panic |-> TRUE, key |-> <<>>]
    ELSE [panic |-> FALSE,
          key |-> [i \in 1..keyLen |->
                     HByte("argon2id", 0, i, salt,
                           <<password, time, ArgonMemory(memory, threads),
                             threads, keyLen>>)]]

\* bcrypt's digest of a password under a cost and a salt, and the two
\* pieces it is written as after "$2a$": the cost, '$', salt and digest.
BcryptKey(password, cost, salt) ==
    <<HByte("bcrypt", 0, 1, salt, <<password, cost>>)>>
BcryptCostText(cost) == Piece("cost", "", 2, <<cost>>, <<>>, FALSE)
BcryptBody(salt, key) == Piece("bcrypt", "", 53, <<>>, salt \o key, FALSE)

\* bcrypt.GenerateFromPassword(password, cost), of passwords of at most 72
\* bytes: a cost under MinCost is replaced by DefaultCost, a cost over
\* MaxCost is an error.
GenerateFromPassword(password, cost, r) ==
    LET c == IF cost < MinCost THEN DefaultCost ELSE cost
        salt == Salt(r, 1)
    IN  IF c > MaxCost THEN [ok |-> FALSE, hash |-> <<>>]
        ELSE [ok |-> TRUE,
              hash |-> <<Chr("$"), Chr("2"), Chr("a"), Chr("$"),
                         BcryptCostText(c), Chr("$"),
                         BcryptBody(salt, BcryptKey(password, c, salt))>>]

\* bcrypt.CompareHashAndPassword(hash, password): "" for nil, "mismatch" for
\* ErrMismatchedHashAndPassword, "other" for every other error (hash too
\* short, bad prefix, version too new, bad cost, undecodable salt).  After
\* the version and the cost the next 22 characters are the salt and all the
\* rest, however long, is the digest the computed one is compared with. (Of
\* strings of MinHashSize characters or more, the model holds those of
\* GenerateFromPassword only, with or without more characters after them.)
MinHashSize == 59
CompareHashAndPassword(hash, password) ==
    IF StrLen(hash) < MinHashSize THEN "other"
    ELSE IF ~(/\ Len(hash) >= 7
              /\ hash[1] = Chr("$") /\ hash[2] = Chr("2")
              /\ hash[3].kind = "chr" /\ hash[3] # Chr("$")
              /\ hash[4] = Chr("$")
              /\ hash[5].kind = "cost" /\ hash[6] = Chr("$")
              /\ hash[7].kind = "bcrypt" /\ Len(hash[7].bytes) = 2)
    THEN "other"
    ELSE IF hash[5].nums[1] < MinCost \/ hash[5].nums[1] > MaxCost THEN "other"
    ELSE IF /\ BcryptKey(password, hash[5].nums[1], SubSeq(hash[7].bytes, 1, 1))
                 = SubSeq(hash[7].bytes, 2, 2)
            /\ Len(hash) = 7
    THEN ""
    ELSE "mismatch"

\* (*Hasher).hashBcrypt(password)
hashBcrypt(h, password, r) ==
    LET g == GenerateFromPassword(password, h.BcryptCost, r)
    IN  IF ~g.ok THEN HError(CodeInternal, "failed to hash password with bcrypt")
        ELSE HOut(g.hash, FALSE, NoError, FALSE)

\* (*Hasher).compareBcrypt(password, hash)
compareBcrypt(h, password, hash) ==
    LET err == CompareHashAndPassword(hash, password)
    IN  IF err = "mismatch" THEN HOut(<<>>, FALSE, NoError, FALSE)
        ELSE IF err # "" THEN HError(CodeInternal, "failed to compare bcrypt hash")
        ELSE HOut(<<>>, TRUE, NoError, FALSE)

\* A hashArgon2 whose salt has the default length whatever the configuration.
hashArgon2DefaultSalt(h, password, r) ==
    LET salt == Salt(r, DefaultHashConfig.Argon2SaltLen)
        hash == IDKey(password, salt, h.Argon2Time, h.Argon2Memory,
                      h.Argon2Threads, h.Argon2KeyLen)
    IN  IF hash.panic THEN HPanic
        ELSE HOut(<<Chr("$"), Word("argon2id"), Chr("$"),
                    VersionText(ArgonVersion), Chr("$"),
                    ParamsText(h.Argon2Memory, h.Argon2Time, h.Argon2Threads),
                    Chr("$")>>
                  \o Base64Text(RawStdEncoding, salt) \o <<Chr("$")>>
                  \o Base64Text(RawStdEncoding, hash.key),
                  FALSE, NoError, FALSE)

\* (*Hasher).hashArgon2(password), r the value the random source gives.
hashArgon2(h, password, r) ==
    LET salt == Salt(r, h.Argon2SaltLen)
        hash == IDKey(password, salt, h.Argon2Time, h.Argon2Memory,
                      h.Argon2Threads, h.Argon2KeyLen)
    IN  IF hash.panic THEN HPanic
        ELSE HOut(<<Chr("$"), Word("argon2id"), Chr("$"),
                    VersionText(ArgonVersion), Chr("$"),
                    ParamsText(h.Argon2Memory, h.Argon2Time, h.Argon2Threads),
                    Chr("$")>>
                  \o Base64Text(RawStdEncoding, salt) \o <<Chr("$")>>
                  \o Base64Text(RawStdEncoding, hash.key),
                  FALSE, NoError, FALSE)

\* splitArgon2Hash(hash): the pieces between the '$', the last of them only
\* if it is not empty.
RECURSIVE splitFrom(_, _, _, _)
splitFrom(hash, i, parts, current) ==
    IF i > Len(hash)
    THEN IF current # <<>> THEN Append(parts, current) ELSE parts
    ELSE IF hash[i] = Chr("$")
    THEN splitFrom(hash, i + 1, Append(parts, current), <<>>)
    ELSE splitFrom(hash, i + 1, parts, Append(current, hash[i]))
splitArgon2Hash(hash) == splitFrom(hash, 1, <<>>, <<>>)

\* fmt.Sscanf(part, "v=%d", &version) and fmt.Sscanf(part, "m=%d,t=%d,p=%d",
\* &memory, &time, &threads): what follows the last number is not read; a
\* number that does not fit its variable is an error (threads is a uint8;
\* the memory and time written here always fit their uint32).
MaxUint8 == 255
SscanfVersion(part) == Len(part) >= 1 /\ part[1].kind = "v"
SscanfParams(part) ==
    /\ Len(part) >= 1 /\ part[1].kind = "params"
    /\ part[1].nums[3] <= MaxUint8

\* base64.RawStdEncoding.DecodeString(part)
DecodePart(part) ==
    IF part = <<>> THEN [ok |-> TRUE, bytes |-> <<>>]
    ELSE IF Len(part) = 1 /\ part[1].kind = "b64"
    THEN DecodeString(RawStdEncoding,
                      [valid |-> TRUE, pad |-> part[1].pad, bytes |-> part[1].bytes])
    ELSE [ok |-> FALSE, bytes |-> <<>>]

\* A compareArgon2 that derives the key with the Hasher's own time, memory
\* and threads.
compareArgon2OwnParameters(h, password, encodedHash) ==
    LET parts == splitArgon2Hash(encodedHash) IN
    IF Len(parts) # 6 \/ ~DecodePart(parts[5]).ok \/ ~DecodePart(parts[6]).ok
    THEN HError(CodeBadRequest, "invalid argon2 hash format")
    ELSE LET decodedHash == DecodePart(parts[6]).bytes
             computedHash == IDKey(password, DecodePart(parts[5]).bytes,
                                   h.Argon2Time, h.Argon2Memory, h.Argon2Threads,
                                   Len(decodedHash))
         IN  IF computedHash.panic THEN HPanic
             ELSE HOut(<<>>, decodedHash = computedHash.key, NoError, FALSE)

\* (*Hasher).compareArgon2(password, encodedHash); parts[k] of the code is
\* parts[k + 1] here.
compareArgon2(h, password, encodedHash) ==
    LET parts == splitArgon2Hash(encodedHash) IN
    IF Len(parts) # 6 THEN HError(CodeBadRequest, "invalid argon2 hash format")
    ELSE IF parts[2] # <<Word("argon2id")>>
    THEN HError(CodeBadRequest, "unsupported argon2 variant")
    ELSE IF ~SscanfVersion(parts[3])
    THEN HError(CodeInternal, "failed to parse version")
    ELSE IF ~SscanfParams(parts[4])
    THEN HError(CodeInternal, "failed to parse parameters")
    ELSE IF ~DecodePart(parts[5]).ok
    THEN HError(CodeInternal, "failed to decode salt")
    ELSE IF ~DecodePart(parts[6]).ok
    THEN HError(CodeInternal, "failed to decode hash")
    ELSE LET memory == parts[4][1].nums[1]
             time == parts[4][1].nums[2]
             threads == parts[4][1].nums[3]
             decodedSalt == DecodePart(parts[5]).bytes
             decodedHash == DecodePart(parts[6]).bytes
             computedHash == IDKey(password, decodedSalt, time, memory, threads,
                                   Len(decodedHash))
         IN  IF computedHash.panic THEN HPanic
             ELSE HOut(<<>>, decodedHash = computedHash.key, NoError, FALSE)

\* (*Hasher).HashPassword(password, algorithm)
HashPassword(h, password, algorithm, r) ==
    IF password = "" THEN HError(CodeBadRequest, "password cannot be empty")
    ELSE IF algorithm = AlgorithmBcrypt THEN hashBcrypt(h, password, r)
    ELSE IF algorithm = AlgorithmArgon2 THEN hashArgon2(h, password, r)
    ELSE HError(CodeBadRequest, "unsupported hashing algorithm")

\* A ComparePassword that takes every string beginning with '$' for bcrypt.
ComparePasswordByDollar(h, password, hash) ==
    IF password = "" \/ hash = <<>>
    THEN HError(CodeBadRequest, "password and hash cannot be empty")
    ELSE IF StrLen(hash) > 4 /\ hash[1] = Chr("$")
    THEN compareBcrypt(h, password, hash)
    ELSE compareArgon2(h, password, hash)

\* (*Hasher).ComparePassword(password, hash)
ComparePassword(h, password, hash) ==
    IF password = "" \/ hash = <<>>
    THEN HError(CodeBadRequest, "password and hash cannot be empty")
    ELSE IF /\ StrLen(hash) > 4
            /\ hash[1] = Chr("$") /\ Len(hash) >= 2 /\ hash[2] = Chr("2")
    THEN compareBcrypt(h, password, hash)
    ELSE compareArgon2(h, password, hash)

\* ------------------------------------------------------- package errors
\* The net/http status codes that codes.go and handler.go name.
StatusBadRequest == 400
StatusUnauthorized == 401
StatusForbidden == 403
StatusNotFound == 404
StatusConflict == 409
StatusGone == 410
StatusTooManyRequests == 429
StatusInternalServerError == 500
StatusNotImplemented == 501
StatusServiceUnavailable == 503

CodeUnknown == "UNKNOWN_ERROR"
CodeNotImplemented == "NOT_IMPLEMENTED"
CodeForbidden == "FORBIDDEN"
CodeNotFound == "NOT_FOUND"
CodeConflict == "CONFLICT"
CodeTooManyRequests == "TOO_MANY_REQUESTS"
CodeServiceUnavailable == "SERVICE_UNAVAILABLE"
CodeDatabaseError == "DATABASE_ERROR"

\* ErrorCode.HTTPStatus: the codeToHTTPStatus entry, 500 for a code that has
\* none.
HTTPStatus(c) ==
    IF c \in {CodeBadRequest, "INVALID_INPUT", "VALIDATION_ERROR", "MISSING_FIELD"}
    THEN StatusBadRequest
    ELSE IF c \in {CodeUnauthorized, CodeInvalidToken, CodeTokenExpired}
    THEN StatusUnauthorized
    ELSE IF c = CodeForbidden THEN StatusForbidden
    ELSE IF c = CodeNotFound THEN StatusNotFound
    ELSE IF c \in {"ALREADY_EXISTS", CodeConflict, "DUPLICATE_KEY"} THEN StatusConflict
    ELSE IF c = "GONE" THEN StatusGone
    ELSE IF c \in {CodeTooManyRequests, "RATE_LIMIT_EXCEEDED"}
    THEN StatusTooManyRequests
    ELSE IF c \in {CodeInternal, CodeUnknown, CodeDatabaseError, "FOREIGN_KEY_VIOLATION"}
    THEN StatusInternalServerError
    ELSE IF c = CodeNotImplemented THEN StatusNotImplemented
    ELSE IF c \in {CodeServiceUnavailable, "TIMEOUT", "EXTERNAL_SERVICE_ERROR"}
    THEN StatusServiceUnavailable
    ELSE StatusInternalServerError

\* ErrorCode.Message: the codeToMessage entry of the codes used here, and the
\* text given to a code that has none.
Message(c) ==
    IF c = CodeInternal THEN "An internal error occurred. Please try again later."
    ELSE IF c = CodeUnknown THEN "An unknown error occurred."
    ELSE IF c = CodeNotImplemented THEN "This feature is not yet implemented."
    ELSE IF c = CodeBadRequest THEN "The request could not be understood."
    ELSE IF c = CodeUnauthorized
    THEN "Authentication is required to access this resource."
    ELSE IF c = CodeForbidden
    THEN "You don't have permission to access this resource."
    ELSE IF c = CodeNotFound THEN "The requested resource was not found."
    ELSE IF c = CodeConflict THEN "The request conflicts with the current state."
    ELSE IF c = CodeTooManyRequests THEN "Too many requests. Please slow down."
    ELSE IF c = CodeServiceUnavailable
    THEN "The service is temporarily unavailable."
    ELSE IF c = CodeDatabaseError THEN "A database error occurred."
    ELSE "An error occurred."

\* Values of the error interface: nil; an error of another package (its
\* identity and its Error() text); a pointer to an AppError (the object's
\* identity and its fields; Context, Stack and Timestamp are left out, no
\* operation here reads them); and a nil *AppError held in a non-nil
\* interface value.
NilErr == [kind |-> "nil"]
PlainError(id, text) == [kind |-> "plain", id |-> id, text |-> text]
AppErrorObject(id, code, message, details, cause, status) ==
    [kind |-> "app", id |-> id, Code |-> code, Message |-> message,
     Details |-> details, Cause |-> cause, HTTPStatus |-> status]
NilAppError == [kind |-> "nilapp"]

\* A variadic message counts when one is passed and it is not empty.
Given(message) == Len(message) > 0 /\ message[1] # ""

\* New(code, message...): a freshly allocated AppError.
New(code, message) ==
    AppErrorObject("new", code, IF Given(message) THEN message[1] ELSE Message(code),
                   "", NilErr, 0)

\* err.Error()
ErrorText(err) ==
    IF err.kind = "plain" THEN err.text
    ELSE IF err.Message # "" THEN err.Message
    ELSE Message(err.Code)

\* (*AppError).Unwrap
Unwrap(e) == e.Cause

\* (*AppError).WithHTTPStatus
WithHTTPStatus(e, status) == [e EXCEPT !.HTTPStatus = status]

\* A GetHTTPStatus that always answers with the status of the code.
GetHTTPStatusOfCode(e) == HTTPStatus(e.Code)

\* (*AppError).GetHTTPStatus
GetHTTPStatus(e) ==
    IF e.HTTPStatus # 0 THEN e.HTTPStatus ELSE HTTPStatus(e.Code)

\* FromHTTPStatus(status)
FromHTTPStatus(status) ==
    LET code ==
            IF status = StatusBadRequest THEN CodeBadRequest
            ELSE IF status = StatusUnauthorized THEN CodeUnauthorized
            ELSE IF status = StatusForbidden THEN CodeForbidden
            ELSE IF status = StatusNotFound THEN CodeNotFound
            ELSE IF status = StatusConflict THEN CodeConflict
            ELSE IF status = StatusTooManyRequests THEN CodeTooManyRequests
            ELSE IF status = StatusInternalServerError THEN CodeInternal
            ELSE IF status = StatusNotImplemented THEN CodeNotImplemented
            ELSE IF status = StatusServiceUnavailable THEN CodeServiceUnavailable
            ELSE CodeUnknown
    IN  WithHTTPStatus(New(code, <<>>), status)

\* What Wrap gives back: the *AppError it returns (NilErr for nil), or a
\* panic.
WrapOut(ret, panic) == [ret |-> ret, panic |-> panic]

\* A Wrap that records no cause.
WrapWithoutCause(err, code, message) ==
    IF err = NilErr THEN WrapOut(NilErr, FALSE)
    ELSE IF err.kind = "nilapp"
    THEN IF Given(message) THEN WrapOut(NilErr, TRUE) ELSE WrapOut(NilErr, FALSE)
    ELSE IF err.kind = "app"
    THEN WrapOut(IF Given(message) THEN [err EXCEPT !.Details = message[1]] ELSE err,
                 FALSE)
    ELSE WrapOut(AppErrorObject("new", code,
                                IF Given(message) THEN message[1] ELSE Message(code),
                                ErrorText(err), NilErr, 0),
                 FALSE)

\* Wrap(err, code, message...).  An err that already is an *AppError is given
\* back as it is, its Details overwritten by the message when one is given;
\* writing Details through a nil *AppError is a nil pointer dereference.
Wrap(err, code, message) ==
    IF err = NilErr THEN WrapOut(NilErr, FALSE)
    ELSE IF err.kind = "nilapp"
    THEN IF Given(message) THEN WrapOut(NilErr, TRUE) ELSE WrapOut(NilErr, FALSE)
    ELSE IF err.kind = "app"
    THEN WrapOut(IF Given(message) THEN [err EXCEPT !.Details = message[1]] ELSE err,
                 FALSE)
    ELSE WrapOut(AppErrorObject("new", code,
                                IF Given(message) THEN message[1] ELSE Message(code),
                                ErrorText(err), err, 0),
                 FALSE)

\* ------------------------------------------------------------- the state
VARIABLES
    mgr,    \* the constructed JWTManager's config, or Nil before construction
    now,    \* the clock, in ticks
    tok,    \* the token string the caller holds
    origin, \* how the caller came by tok: the call, its arguments, its time
    res,    \* the call made at this instant, if any: its inputs and results
    enc,    \* the Encryptor in use (its config's key), or Nil before construction
    env,    \* the envelope the caller holds, and how it came by it
    drawn,  \* the nonces the random source gave under the key in use
    eres,   \* the last Encryptor or key call: its inputs and results
    hasher, \* the Hasher in use (its config), or Nil before construction
    held,   \* the hash string the caller holds, and how it came by it
    hres,   \* the last Hasher call: its inputs and results
    heap,   \* the claims objects goroutines were handed pointers to
    gor,    \* each goroutine's GenerateToken call: where it is, its locals
    cobj,   \* the config object (or key bytes) a caller passed to a constructor
    comp,   \* the component constructed of it, and the config as it then was
    cres,   \* the last call on that component: what it returned
    ares,   \* the last call into package errors: its inputs and results
    defaultJWTManager, \* the package-level manager's config, or Nil
    defaultEncryptor,  \* the package-level encryptor's key, or Nil
    dheld,  \* the token and envelope a caller of the package functions holds
    dres    \* the last package-level call: its inputs and results

vars ==
    <<mgr, now, tok, origin, res, enc, env, drawn, eres, hasher, held, hres,
      heap, gor, cobj, comp, cres, ares,
      defaultJWTManager, defaultEncryptor, dheld, dres>>
jwtVars == <<mgr, now, tok, origin, res>>
encVars == <<enc, env, drawn, eres>>
hashVars == <<hasher, held, hres>>
concVars == <<heap, gor>>
aliasVars == <<cobj, comp, cres>>
errVars == <<ares>>
defVars == <<defaultJWTManager, defaultEncryptor, dheld, dres>>
exceptJWT == <<encVars, hashVars, concVars, aliasVars, errVars, defVars>>
exceptEnc == <<jwtVars, hashVars, concVars, aliasVars, errVars, defVars>>
exceptHash == <<jwtVars, encVars, concVars, aliasVars, errVars, defVars>>
exceptConc == <<encVars, hashVars, aliasVars, errVars, defVars>>
exceptAlias == <<jwtVars, encVars, hashVars, concVars, errVars, defVars>>
exceptErr == <<jwtVars, encVars, hashVars, concVars, aliasVars, defVars>>
exceptDef == <<jwtVars, encVars, hashVars, concVars, aliasVars, errVars>>

Origin(op, claims, tt, at) == [op |-> op, claims |-> claims, tt |-> tt, at |-> at]
NoOrigin == Origin("none", Nil, "", 0)

Result(op, in, out, out2, claims, err, obj) ==
    [op |-> op, in |-> in, tok |-> out, tok2 |-> out2, claims |-> claims,
     err |-> err, obj |-> obj]

NoResult == Result("none", EmptyToken, EmptyToken, EmptyToken, Nil, NoError, Nil)

\* The envelope a caller holds: a text (from Encrypt) or raw bytes (from
\* EncryptBytes), the plaintext, key and nonce it was made of, and whether it
\* is still as it was made.
Envelope(form, text, raw, plain, key, nonce, state) ==
    [form |-> form, text |-> text, raw |-> raw, plain |-> plain, key |-> key,
     nonce |-> nonce, state |-> state]
NoEnvelope == Envelope("none", EmptyString, <<>>, <<>>, NoKey, 0, "none")

\* An Encryptor or key call: the plaintext or size it was given, what it
\* returned and, of an encryption, whether the nonce it drew had been drawn
\* before by this Encryptor, whether the call before it encrypted the same
\* plaintext in the same form, and whether it returned the same envelope.
EResult(op, plain, size, reused, again, same, out) ==
    [op |-> op, plain |-> plain, size |-> size, reused |-> reused,
     again |-> again, same |-> same, out |-> out]
NoEResult ==
    EResult("none", <<>>, 0, FALSE, FALSE, FALSE,
            EOut(EmptyString, <<>>, NoKey, NoError, FALSE))

\* The hash string a caller holds: from HashPassword (the password,
\* algorithm and Hasher it was made of), as such a string with a '$' added,
\* a word put in front or its end cut off, or written by someone else.
Held(str, pw, alg, cfg, state) ==
    [str |-> str, pw |-> pw, alg |-> alg, cfg |-> cfg, state |-> state]
NoHeld == Held(<<>>, "", "", Nil, "none")

\* A Hasher call: what it was given and what it returned; none once the
\* string held is another than the one the call was about.
HResult(op, password, algorithm, out) ==
    [op |-> op, password |-> password, algorithm |-> algorithm, out |-> out]
NoHResult == HResult("none", "", "", HOut(<<>>, FALSE, NoError, FALSE))

\* The claims objects two goroutines may be handed pointers to, and the
\* goroutines.
ClaimsObjects ==
    <<MkClaims("", "", <<>>, NoDate, NoDate, NoDate, "u1", "alice", "a@x", <<"admin">>, {}),
      MkClaims("", "", <<>>, NoDate, NoDate, NoDate, "u2", "bob", "b@x", <<>>, {})>>
Goroutines == {"g1", "g2"}

\* A goroutine's GenerateToken call: the statement it is at, the object its
\* claims pointer refers to, its token type, the time it read (now) and the
\* token it returned.
Call(pc, obj, tt, at, out) ==
    [pc |-> pc, obj |-> obj, tt |-> tt, at |-> at, out |-> out]
Idle == Call("idle", 0, "", 0, EmptyToken)

\* A component and the config object its pointer refers to: its kind, the
\* value the object had when the constructor returned, and whether the
\* caller holds the object too (it passed it in) or the constructor made it.
Component(kind, built, shared) == [kind |-> kind, built |-> built, shared |-> shared]
NoComponent == Component("none", Nil, FALSE)

\* A call on that component: its inputs and what it returned.
CResult(op, in, r, at, out) == [op |-> op, in |-> in, r |-> r, at |-> at, out |-> out]
NoCResult == CResult("none", Nil, 0, 0, Nil)

\* A call into package errors: its inputs and what it returned.
AResult(op, status, err, code, message, out) ==
    [op |-> op, status |-> status, err |-> err, code |-> code,
     message |-> message, out |-> out]
NoAResult == AResult("none", 0, NilErr, "", <<>>, WrapOut(NilErr, FALSE))

\* What a caller of the package-level functions holds: a token and an
\* envelope, as text and as bytes.
DHeld(token, text, raw) == [tok |-> token, text |-> text, raw |-> raw]
NoDHeld == DHeld(EmptyToken, EmptyString, <<>>)

\* A package-level call: its input and what it returned; and the config and
\* the key of the latest InitDefaultJWT and InitDefaultEncryptor calls that
\* returned no error, Nil while there was none.
DResult(op, in, out, jwt, key) ==
    [op |-> op, in |-> in, out |-> out, jwt |-> jwt, key |-> key]
NoDResult == DResult("none", Nil, Nil, Nil, Nil)

\* Everything but the JWTManager and the clock, before any construction.
InitRest ==
    /\ tok = EmptyToken
    /\ origin = NoOrigin
    /\ res = NoResult
    /\ enc = Nil
    /\ env = NoEnvelope
    /\ drawn = {}
    /\ eres = NoEResult
    /\ hasher = Nil
    /\ held = NoHeld
    /\ hres = NoHResult
    /\ heap = ClaimsObjects
    /\ gor = [g \in Goroutines |-> Idle]
    /\ cobj = Nil
    /\ comp = NoComponent
    /\ cres = NoCResult
    /\ ares = NoAResult
    /\ defaultJWTManager = Nil
    /\ defaultEncryptor = Nil
    /\ dheld = NoDHeld
    /\ dres = NoDResult

Init ==
    /\ mgr = Nil
    /\ now = 0
    /\ InitRest

\* NewJWTManager(config)
NewJWTManager(config) ==
    /\ mgr = Nil
    /\ LET r == NewJWTManagerOf(config)
       IN  /\ mgr' = r.m
           /\ res' = Result("NewJWTManager", config, EmptyToken, EmptyToken,
                            Nil, AppError(r.code, r.msg), Nil)
    /\ UNCHANGED <<now, tok, origin>>
    /\ UNCHANGED exceptJWT

\* Time passes; the call made at the earlier instant is over.
Tick ==
    /\ now < MaxNow
    /\ now' = now + 1
    /\ res' = NoResult
    /\ UNCHANGED <<mgr, tok, origin>>
    /\ UNCHANGED exceptJWT

\* A caller that holds no token yet calls m.GenerateToken(claims, tokenType)
\* and keeps the token it gets.  (The manager keeps no state between calls:
\* what a call returns depends on the manager, the arguments and the time
\* only, so a caller that already holds a token reaches nothing more.)
CallGenerateToken(claims, tokenType) ==
    /\ mgr # Nil
    /\ tok = EmptyToken
    /\ LET g == GenerateToken(mgr, claims, tokenType, now)
       IN  /\ tok' = g.tok
           /\ origin' = Origin("GenerateToken", claims, tokenType, now)
           /\ res' = Result("GenerateToken", EmptyToken, g.tok, EmptyToken, Nil,
                            g.err, g.obj)
    /\ UNCHANGED <<mgr, now>>
    /\ UNCHANGED exceptJWT

\* A caller that holds no token yet calls m.GenerateTokenPair(claims) and
\* goes on with one of the two tokens.
CallGenerateTokenPair(claims, keep) ==
    /\ mgr # Nil
    /\ tok = EmptyToken
    /\ LET g == GenerateTokenPair(mgr, claims, now)
       IN  /\ tok' = IF keep = AccessToken THEN g.access ELSE g.refresh
           /\ origin' = Origin("GenerateTokenPair", claims, keep, now)
           /\ res' = Result("GenerateTokenPair", EmptyToken, g.access, g.refresh,
                            Nil, g.err, g.obj)
    /\ UNCHANGED <<mgr, now>>
    /\ UNCHANGED exceptJWT

\* m.ParseToken(tok)
CallParseToken ==
    /\ mgr # Nil
    /\ LET p == ParseToken(mgr, tok, now)
       IN  res' = Result("ParseToken", tok, EmptyToken, EmptyToken, p.claims,
                         p.err, Nil)
    /\ UNCHANGED <<mgr, now, tok, origin>>
    /\ UNCHANGED exceptJWT

\* m.RefreshToken(tok); on success the caller keeps the new token.
CallRefreshToken ==
    /\ mgr # Nil
    /\ LET r == RefreshTokenOf(mgr, tok, now)
       IN  /\ tok' = IF r.err = NoError THEN r.tok ELSE tok
           /\ origin' = IF r.err = NoError THEN Origin("RefreshToken", Nil, "", now)
                        ELSE origin
           /\ res' = Result("RefreshToken", tok, r.tok, EmptyToken, Nil, r.err, Nil)
    /\ UNCHANGED <<mgr, now>>
    /\ UNCHANGED exceptJWT

\* A caller that holds no token yet is handed one made elsewhere or a
\* damaged one.
Present ==
    /\ mgr # Nil
    /\ tok = EmptyToken
    /\ \E t \in CraftedTokens(mgr) \cup MultiAudienceTokens(mgr)
                  \cup OtherSignedTokens(mgr) \cup MalformedTokens(mgr) :
          tok' = t
    /\ origin' = Origin("Present", Nil, "", now)
    /\ res' = NoResult
    /\ UNCHANGED <<mgr, now>>
    /\ UNCHANGED exceptJWT

\* One character of the payload segment of a token that GenerateToken
\* returned is changed.
Tamper ==
    /\ origin.op \in {"GenerateToken", "GenerateTokenPair"} /\ tok # EmptyToken
    /\ \E p \in TamperedPayloads(tok.pay) : tok' = [tok EXCEPT !.pay = p]
    /\ origin' = [origin EXCEPT !.op = "Tamper"]
    /\ res' = NoResult
    /\ UNCHANGED <<mgr, now>>
    /\ UNCHANGED exceptJWT

Next ==
    \/ \E config \in ConfigInputs : NewJWTManager(config)
    \/ Tick
    \/ \E claims \in ClaimsInputs, tokenType \in TokenTypes :
          CallGenerateToken(claims, tokenType)
    \/ \E claims \in ClaimsInputs, keep \in TokenTypes :
          CallGenerateTokenPair(claims, keep)
    \/ CallParseToken
    \/ CallRefreshToken
    \/ Present
    \/ Tamper

Spec == Init /\ [][Next]_vars

\* --------------------------------------------------- Encryptor: the state
\* Key lengths a caller may come with, and the keys: every length filled with
\* the same random bytes, and one AES-128 key filled with others.
KeySizeInputs == {0, 15, 16, 24, 32, 33}
KeyIds == {"a", "b"}
KeyInputs == {Key(n, "a") : n \in KeySizeInputs} \cup {Key(16, "b")}
EncryptionConfigInputs == {[Key |-> k] : k \in KeyInputs} \cup {Nil}

\* The bytes of the envelope held.
EnvelopeBytes == IF env.form = "text" THEN env.text.bytes ELSE env.raw

\* The envelope held with other bytes.
WithBytes(bytes, state) ==
    IF env.form = "text"
    THEN [env EXCEPT !.text = EncodeToString(StdEncoding, bytes), !.state = state]
    ELSE [env EXCEPT !.raw = bytes, !.state = state]

\* NewEncryptor(config), by a caller that holds no envelope or one as it was
\* made: on success the caller goes on with the new Encryptor and keeps the
\* envelope.
NewEncryptor(config) ==
    /\ env.state \in {"none", "made"}
    /\ LET r == NewEncryptorOf(config)
       IN  /\ enc' = IF r.err = NoError THEN r.key ELSE enc
           /\ drawn' = IF r.err = NoError /\ r.key # enc THEN {} ELSE drawn
           /\ eres' = EResult("NewEncryptor", <<>>,
                              IF config = Nil THEN 0 ELSE config.Key.size,
                              FALSE, FALSE, FALSE, r)
    /\ UNCHANGED env
    /\ UNCHANGED exceptEnc

\* e.Encrypt(plaintext); the caller keeps the envelope it gets.
CallEncrypt(plaintext, r) ==
    /\ enc # Nil
    /\ env.state \in {"none", "made"}
    /\ LET o == Encrypt(enc, plaintext, r)
       IN  /\ env' = IF o.err = NoError
                     THEN Envelope("text", o.text, <<>>, plaintext, enc, r, "made")
                     ELSE env
           /\ drawn' = IF o.err = NoError THEN drawn \cup {r} ELSE drawn
           /\ eres' = EResult("Encrypt", plaintext, 0,
                              o.err = NoError /\ r \in drawn,
                              /\ env.form = "text" /\ env.key = enc
                              /\ env.plain = plaintext /\ env.nonce \in drawn,
                              env.form = "text" /\ env.text = o.text, o)
    /\ UNCHANGED enc
    /\ UNCHANGED exceptEnc

\* e.EncryptBytes(plaintext)
CallEncryptBytes(plaintext, r) ==
    /\ enc # Nil
    /\ env.state \in {"none", "made"}
    /\ LET o == EncryptBytes(enc, plaintext, r)
       IN  /\ env' = IF o.err = NoError
                     THEN Envelope("raw", EmptyString, o.raw, plaintext, enc, r, "made")
                     ELSE env
           /\ drawn' = IF o.err = NoError THEN drawn \cup {r} ELSE drawn
           /\ eres' = EResult("EncryptBytes", plaintext, 0,
                              o.err = NoError /\ r \in drawn,
                              /\ env.form = "raw" /\ env.key = enc
                              /\ env.plain = plaintext /\ env.nonce \in drawn,
                              env.form = "raw" /\ env.raw = o.raw, o)
    /\ UNCHANGED enc
    /\ UNCHANGED exceptEnc

\* e.Decrypt(env) of the text held (the empty string when none is held).
CallDecrypt ==
    /\ enc # Nil
    /\ env.form \in {"text", "none"}
    /\ eres' = EResult("Decrypt", <<>>, 0, FALSE, FALSE, FALSE,
                       Decrypt(enc, env.text))
    /\ UNCHANGED <<enc, env, drawn>>
    /\ UNCHANGED exceptEnc

\* e.DecryptBytes(env) of the bytes held (no bytes when none are held).
CallDecryptBytes ==
    /\ enc # Nil
    /\ env.form \in {"raw", "none"}
    /\ eres' = EResult("DecryptBytes", <<>>, 0, FALSE, FALSE, FALSE,
                       DecryptBytes(enc, env.raw))
    /\ UNCHANGED <<enc, env, drawn>>
    /\ UNCHANGED exceptEnc

\* One byte of the envelope held, made under the key in use, gets another
\* value.
AlterEnvelope(i) ==
    /\ env.state = "made" /\ env.key = enc
    /\ i \in 1..Len(EnvelopeBytes)
    /\ env' = WithBytes([EnvelopeBytes EXCEPT ![i].kind = "x"], "altered")
    /\ eres' = NoEResult
    /\ UNCHANGED <<enc, drawn>>
    /\ UNCHANGED exceptEnc

\* The envelope held, made under the key in use, is cut to its first n
\* bytes: to nothing, to less than a
\* nonce, to the nonce alone, or by its last byte.
CutEnvelope(n) ==
    /\ env.state = "made" /\ env.key = enc
    /\ n <= NonceSize \/ n = Len(EnvelopeBytes) - 1
    /\ env' = WithBytes(SubSeq(EnvelopeBytes, 1, n), "cut")
    /\ eres' = NoEResult
    /\ UNCHANGED <<enc, drawn>>
    /\ UNCHANGED exceptEnc

\* The text held is replaced by one that is not base64.
GarbleText ==
    /\ env.state = "made" /\ env.form = "text"
    /\ env' = [env EXCEPT !.text = NotBase64, !.state = "garbled"]
    /\ eres' = NoEResult
    /\ UNCHANGED <<enc, drawn>>
    /\ UNCHANGED exceptEnc

\* GenerateAESKey(size), by a caller that holds no envelope yet.
CallGenerateAESKey(size, id) ==
    /\ env.state = "none"
    /\ eres' = EResult("GenerateAESKey", <<>>, size, FALSE, FALSE, FALSE,
                       GenerateAESKey(size, id))
    /\ UNCHANGED <<enc, env, drawn>>
    /\ UNCHANGED exceptEnc

\* GenerateAES128Key(), GenerateAES192Key(), GenerateAES256Key()
CallGenerateAESNamedKey(bits, id) ==
    /\ env.state = "none"
    /\ eres' = EResult("GenerateAESNamedKey", <<>>, bits, FALSE, FALSE, FALSE,
                       IF bits = 128 THEN GenerateAES128Key(id)
                       ELSE IF bits = 192 THEN GenerateAES192Key(id)
                       ELSE GenerateAES256Key(id))
    /\ UNCHANGED <<enc, env, drawn>>
    /\ UNCHANGED exceptEnc

NextEnc ==
    \/ \E config \in EncryptionConfigInputs : NewEncryptor(config)
    \/ \E plaintext \in Plaintexts, r \in 1..MaxNonce : CallEncrypt(plaintext, r)
    \/ \E plaintext \in Plaintexts, r \in 1..MaxNonce : CallEncryptBytes(plaintext, r)
    \/ CallDecrypt
    \/ CallDecryptBytes
    \/ \E i \in 1..(NonceSize + MaxPlain + TagSize) : AlterEnvelope(i)
    \/ \E n \in 0..(NonceSize + MaxPlain + TagSize - 1) : CutEnvelope(n)
    \/ GarbleText
    \/ \E size \in KeySizeInputs \cup {128, 192, 256}, id \in KeyIds :
          CallGenerateAESKey(size, id)
    \/ \E bits \in {128, 192, 256}, id \in KeyIds : CallGenerateAESNamedKey(bits, id)

SpecEnc == Init /\ [][NextEnc]_vars

\* ------------------------------------------------------ Hasher: the state
Passwords == {"", "pw", "px"}
HashAlgorithms == {AlgorithmBcrypt, AlgorithmArgon2, "md5"}

\* Configurations given to NewHasher: nil, small valid parameters, a
\* literal that sets the bcrypt cost only, no threads, no salt, and bcrypt
\* costs outside MinCost..MaxCost.
SmallHashConfig == HashConfig(MinCost, 2, 8, 1, 2, 1)
HashConfigInputs ==
    {Nil, SmallHashConfig,
     HashConfig(12, 0, 0, 0, 0, 0),
     [SmallHashConfig EXCEPT !.Argon2Threads = 0],
     [SmallHashConfig EXCEPT !.Argon2SaltLen = 0],
     [SmallHashConfig EXCEPT !.BcryptCost = MinCost - 1],
     [SmallHashConfig EXCEPT !.BcryptCost = MaxCost + 1]}

\* Hash strings written by someone else: Argon2id strings with t=0, p=0,
\* p=256, another variant, an unreadable version, unreadable parameters, a
\* salt and a digest that are not base64, a padded digest; "$2a$"; a short
\* string beginning "$2a$"; a word.
ArgonText(variant, version, params, salt, digest) ==
    <<Chr("$"), variant, Chr("$"), version, Chr("$"), params, Chr("$")>>
        \o salt \o <<Chr("$")>> \o digest
SampleSalt == Salt(1, 1)
SampleKey == IDKey("pw", SampleSalt, 2, 8, 1, 2).key
SampleArgon ==
    ArgonText(Word("argon2id"), VersionText(ArgonVersion), ParamsText(8, 2, 1),
              Base64Text(RawStdEncoding, SampleSalt),
              Base64Text(RawStdEncoding, SampleKey))
CraftedHashes ==
    {[SampleArgon EXCEPT ![6] = ParamsText(8, 0, 1)],
     [SampleArgon EXCEPT ![6] = ParamsText(8, 2, 0)],
     [SampleArgon EXCEPT ![6] = ParamsText(8, 2, MaxUint8 + 1)],
     [SampleArgon EXCEPT ![2] = Word("argon2i")],
     [SampleArgon EXCEPT ![4] = Word("v=x")],
     [SampleArgon EXCEPT ![6] = Word("m=x")],
     [SampleArgon EXCEPT ![8] = Word("!")],
     [SampleArgon EXCEPT ![10] = Word("!")],
     [SampleArgon EXCEPT ![10] = Base64Text(StdEncoding, SampleKey)[1]],
     <<Chr("$"), Chr("2"), Chr("a"), Chr("$")>>,
     <<Chr("$"), Chr("2"), Chr("a"), Chr("$"), BcryptCostText(MinCost), Chr("$"),
       Word("short")>>,
     <<Word("plain")>>}

\* NewHasher(config)
NewHasher(config) ==
    /\ hasher' = NewHasherOf(config)
    /\ hres' = HResult("NewHasher", "", "", HOut(<<>>, FALSE, NoError, FALSE))
    /\ UNCHANGED held
    /\ UNCHANGED exceptHash

\* h.HashPassword(password, algorithm); the caller holds the string returned.
CallHashPassword(password, algorithm, r) ==
    /\ hasher # Nil
    /\ LET out == HashPassword(hasher, password, algorithm, r)
       IN  /\ hres' = HResult("HashPassword", password, algorithm, out)
           /\ held' = IF out.err = NoError /\ ~out.panic
                      THEN Held(out.text, password, algorithm, hasher, "made")
                      ELSE held
    /\ UNCHANGED hasher
    /\ UNCHANGED exceptHash

\* h.ComparePassword(password, hash) of the string held.
CallComparePassword(password) ==
    /\ hasher # Nil
    /\ hres' = HResult("ComparePassword", password, "",
                       ComparePassword(hasher, password, held.str))
    /\ UNCHANGED <<hasher, held>>
    /\ UNCHANGED exceptHash

\* A hash string written by someone else is held.
PresentHash(str) ==
    /\ held' = Held(str, "", "", Nil, "crafted")
    /\ hres' = NoHResult
    /\ UNCHANGED hasher
    /\ UNCHANGED exceptHash

\* A '$' is added to the end of a string HashPassword returned.
AppendDelimiter ==
    /\ held.state = "made"
    /\ held' = [held EXCEPT !.str = @ \o <<Chr("$")>>, !.state = "appended"]
    /\ hres' = NoHResult
    /\ UNCHANGED hasher
    /\ UNCHANGED exceptHash

\* A word is put in front of a string HashPassword returned.
PrependWord ==
    /\ held.state = "made"
    /\ held' = [held EXCEPT !.str = <<Word("x")>> \o @, !.state = "prepended"]
    /\ hres' = NoHResult
    /\ UNCHANGED hasher
    /\ UNCHANGED exceptHash

\* A string HashPassword returned is cut to its first n pieces.
CutHash(n) ==
    /\ held.state = "made"
    /\ n < Len(held.str)
    /\ held' = [held EXCEPT !.str = SubSeq(@, 1, n), !.state = "cut"]
    /\ hres' = NoHResult
    /\ UNCHANGED hasher
    /\ UNCHANGED exceptHash

NextHash ==
    \/ \E config \in HashConfigInputs : NewHasher(config)
    \/ \E password \in Passwords, algorithm \in HashAlgorithms, r \in 1..MaxSalt :
          CallHashPassword(password, algorithm, r)
    \/ \E password \in Passwords : CallComparePassword(password)
    \/ \E str \in CraftedHashes : PresentHash(str)
    \/ AppendDelimiter
    \/ PrependWord
    \/ \E n \in 0..10 : CutHash(n)

SpecHash == Init /\ [][NextHash]_vars

\* --------------------------------------------------- package errors calls
MaxStatus == 600

\* The statuses handed to FromHTTPStatus: every one the package maps, zero, a
\* negative one and the rest up to MaxStatus.
StatusInputs == (0 - 1)..MaxStatus

\* The errors handed to Wrap: nil, errors of other packages (one with an empty
\* text), AppErrors made before (one wrapping another error already), and a
\* nil *AppError.
ErrInputs ==
    {NilErr,
     PlainError("e1", "database connection failed"),
     PlainError("e2", ""),
     AppErrorObject("a1", CodeNotFound, "User not found", "", NilErr, 0),
     AppErrorObject("a2", CodeInternal, "failed", "disk full",
                    PlainError("e3", "disk full"), 0),
     NilAppError}
CodeInputs == {CodeDatabaseError, CodeInternal, CodeNotFound, "CUSTOM"}
MessageInputs == {<<>>, <<"">>, <<"Failed to fetch user">>}

\* FromHTTPStatus(status)
CallFromHTTPStatus(status) ==
    /\ ares' = AResult("FromHTTPStatus", status, NilErr, "", <<>>,
                       WrapOut(FromHTTPStatus(status), FALSE))
    /\ UNCHANGED exceptErr

\* Wrap(err, code, message...)
CallWrap(err, code, message) ==
    /\ ares' = AResult("Wrap", 0, err, code, message, Wrap(err, code, message))
    /\ UNCHANGED exceptErr

NextErr ==
    \/ \E status \in StatusInputs : CallFromHTTPStatus(status)
    \/ \E err \in ErrInputs, code \in CodeInputs, message \in MessageInputs :
          CallWrap(err, code, message)

SpecErr == Init /\ [][NextErr]_vars

\* ------------------------------------------ package-level default instances
ErrJWTNotInitialized == AppError(CodeInternal, "JWT manager not initialized")
ErrEncryptorNotInitialized == AppError(CodeInternal, "encryptor not initialized")

\* An InitDefaultJWT that assigns whatever NewJWTManager returned.
InitDefaultJWTAssignsAlways(default, config) ==
    LET r == NewJWTManagerOf(config)
    IN  [default |-> r.m,
         err |-> IF r.m = Nil THEN AppError(r.code, r.msg) ELSE NoError]

\* InitDefaultJWT(config): [default, err], default being defaultJWTManager
\* after the call.
InitDefaultJWTOf(default, config) ==
    LET r == NewJWTManagerOf(config)
    IN  IF r.m = Nil THEN [default |-> default, err |-> AppError(r.code, r.msg)]
        ELSE [default |-> r.m, err |-> NoError]

\* (*JWTManager).ValidateToken
ValidateToken(m, tokenString, at) == [err |-> ParseToken(m, tokenString, at).err]

\* The package-level GenerateAccessToken, GenerateRefreshToken, ParseJWT and
\* ValidateJWT, default being defaultJWTManager.
GenerateAccessToken(default, claims, at) ==
    IF default = Nil
    THEN [tok |-> EmptyToken, err |-> ErrJWTNotInitialized, obj |-> claims]
    ELSE GenerateToken(default, claims, AccessToken, at)

GenerateRefreshToken(default, claims, at) ==
    IF default = Nil
    THEN [tok |-> EmptyToken, err |-> ErrJWTNotInitialized, obj |-> claims]
    ELSE GenerateToken(default, claims, RefreshToken, at)

ParseJWT(default, tokenString, at) ==
    IF default = Nil THEN [claims |-> Nil, err |-> ErrJWTNotInitialized]
    ELSE ParseToken(default, tokenString, at)

ValidateJWT(default, tokenString, at) ==
    IF default = Nil THEN [err |-> ErrJWTNotInitialized]
    ELSE ValidateToken(default, tokenString, at)

\* InitDefaultEncryptor(key): [default, err], default being defaultEncryptor
\* after the call.
InitDefaultEncryptorOf(default, key) ==
    LET r == NewEncryptorOf([Key |-> key])
    IN  IF r.err # NoError THEN [default |-> default, err |-> r.err]
        ELSE [default |-> r.key, err |-> NoError]

\* The package-level Encrypt, Decrypt, EncryptBytes and DecryptBytes, default
\* being defaultEncryptor.
DefaultEncrypt(default, plaintext, r) ==
    IF default = Nil THEN EOut(EmptyString, <<>>, NoKey, ErrEncryptorNotInitialized, FALSE)
    ELSE Encrypt(default, plaintext, r)

DefaultDecrypt(default, ciphertext) ==
    IF default = Nil THEN EOut(EmptyString, <<>>, NoKey, ErrEncryptorNotInitialized, FALSE)
    ELSE Decrypt(default, ciphertext)

DefaultEncryptBytes(default, plaintext, r) ==
    IF default = Nil THEN EOut(EmptyString, <<>>, NoKey, ErrEncryptorNotInitialized, FALSE)
    ELSE EncryptBytes(default, plaintext, r)

DefaultDecryptBytes(default, ciphertext) ==
    IF default = Nil THEN EOut(EmptyString, <<>>, NoKey, ErrEncryptorNotInitialized, FALSE)
    ELSE DecryptBytes(default, ciphertext)

\* The configs handed to InitDefaultJWT: two that NewJWTManager accepts (they
\* differ in secret and issuer), one without a secret, one with an algorithm
\* that is not supported, and nil (the default config, which has no secret).
DefaultConfigInputs ==
    {MkConfig(AlgorithmHS256, "s1", Nil, Nil, "svc", "api", BaseAccessTTL, BaseRefreshTTL),
     MkConfig(AlgorithmHS256, "s2", Nil, Nil, "other", "api", BaseAccessTTL, BaseRefreshTTL),
     MkConfig(AlgorithmHS256, "", Nil, Nil, "svc", "api", BaseAccessTTL, BaseRefreshTTL),
     MkConfig("ES256", "s1", Nil, Nil, "svc", "api", BaseAccessTTL, BaseRefreshTTL),
     Nil}

\* The keys handed to InitDefaultEncryptor: two of a size AES takes, one of
\* another size and an empty one.
DefaultKeyInputs == {Key(16, "a"), Key(32, "b"), Key(15, "a"), Key(0, "a")}

\* InitDefaultJWT(config)
InitDefaultJWT(config) ==
    /\ LET r == InitDefaultJWTOf(defaultJWTManager, config)
       IN  /\ defaultJWTManager' = r.default
           /\ dres' = DResult("InitDefaultJWT", config, r,
                              IF r.err = NoError THEN config ELSE dres.jwt, dres.key)
    /\ UNCHANGED <<defaultEncryptor, dheld>>
    /\ UNCHANGED exceptDef

\* GenerateAccessToken(claims); the caller keeps the token.
CallGenerateAccessToken(claims) ==
    /\ LET r == GenerateAccessToken(defaultJWTManager, claims, now)
       IN  /\ dres' = DResult("GenerateAccessToken", claims, r, dres.jwt, dres.key)
           /\ dheld' = IF r.err = NoError THEN [dheld EXCEPT !.tok = r.tok] ELSE dheld
    /\ UNCHANGED <<defaultJWTManager, defaultEncryptor>>
    /\ UNCHANGED exceptDef

\* GenerateRefreshToken(claims); the caller keeps the token.
CallGenerateRefreshToken(claims) ==
    /\ LET r == GenerateRefreshToken(defaultJWTManager, claims, now)
       IN  /\ dres' = DResult("GenerateRefreshToken", claims, r, dres.jwt, dres.key)
           /\ dheld' = IF r.err = NoError THEN [dheld EXCEPT !.tok = r.tok] ELSE dheld
    /\ UNCHANGED <<defaultJWTManager, defaultEncryptor>>
    /\ UNCHANGED exceptDef

\* ParseJWT(tokenString) on the token held.
CallParseJWT ==
    /\ dres' = DResult("ParseJWT", dheld.tok,
                       ParseJWT(defaultJWTManager, dheld.tok, now), dres.jwt, dres.key)
    /\ UNCHANGED <<defaultJWTManager, defaultEncryptor, dheld>>
    /\ UNCHANGED exceptDef

\* ValidateJWT(tokenString) on the token held.
CallValidateJWT ==
    /\ dres' = DResult("ValidateJWT", dheld.tok,
                       ValidateJWT(defaultJWTManager, dheld.tok, now), dres.jwt, dres.key)
    /\ UNCHANGED <<defaultJWTManager, defaultEncryptor, dheld>>
    /\ UNCHANGED exceptDef

\* InitDefaultEncryptor(key)
InitDefaultEncryptor(key) ==
    /\ LET r == InitDefaultEncryptorOf(defaultEncryptor, key)
       IN  /\ defaultEncryptor' = r.default
           /\ dres' = DResult("InitDefaultEncryptor", key, r, dres.jwt,
                              IF r.err = NoError THEN key ELSE dres.key)
    /\ UNCHANGED <<defaultJWTManager, dheld>>
    /\ UNCHANGED exceptDef

\* Encrypt(plaintext); the caller keeps the envelope.
CallDefaultEncrypt(plaintext, r) ==
    /\ LET o == DefaultEncrypt(defaultEncryptor, plaintext, r)
       IN  /\ dres' = DResult("Encrypt", <<plaintext, r>>, o, dres.jwt, dres.key)
           /\ dheld' = IF o.err = NoError THEN [dheld EXCEPT !.text = o.text] ELSE dheld
    /\ UNCHANGED <<defaultJWTManager, defaultEncryptor>>
    /\ UNCHANGED exceptDef

\* EncryptBytes(plaintext); the caller keeps the envelope.
CallDefaultEncryptBytes(plaintext, r) ==
    /\ LET o == DefaultEncryptBytes(defaultEncryptor, plaintext, r)
       IN  /\ dres' = DResult("EncryptBytes", <<plaintext, r>>, o, dres.jwt, dres.key)
           /\ dheld' = IF o.err = NoError THEN [dheld EXCEPT !.raw = o.raw] ELSE dheld
    /\ UNCHANGED <<defaultJWTManager, defaultEncryptor>>
    /\ UNCHANGED exceptDef

\* Decrypt(ciphertext) on the envelope text held.
CallDefaultDecrypt ==
    /\ dres' = DResult("Decrypt", dheld.text,
                       DefaultDecrypt(defaultEncryptor, dheld.text), dres.jwt, dres.key)
    /\ UNCHANGED <<defaultJWTManager, defaultEncryptor, dheld>>
    /\ UNCHANGED exceptDef

\* DecryptBytes(ciphertext) on the envelope bytes held.
CallDefaultDecryptBytes ==
    /\ dres' = DResult("DecryptBytes", dheld.raw,
                       DefaultDecryptBytes(defaultEncryptor, dheld.raw), dres.jwt, dres.key)
    /\ UNCHANGED <<defaultJWTManager, defaultEncryptor, dheld>>
    /\ UNCHANGED exceptDef

NextDefault ==
    \/ \E config \in DefaultConfigInputs : InitDefaultJWT(config)
    \/ \E claims \in {ClaimsObjects[1], Nil} : CallGenerateAccessToken(claims)
    \/ \E claims \in {ClaimsObjects[1], Nil} : CallGenerateRefreshToken(claims)
    \/ CallParseJWT
    \/ CallValidateJWT
    \/ \E key \in DefaultKeyInputs : InitDefaultEncryptor(key)
    \/ \E plaintext \in {<<>>, <<"h">>} : CallDefaultEncrypt(plaintext, 1)
    \/ \E plaintext \in {<<>>, <<"h">>} : CallDefaultEncryptBytes(plaintext, 1)
    \/ CallDefaultDecrypt
    \/ CallDefaultDecryptBytes

SpecDefault == Init /\ [][NextDefault]_vars

\* ------------------------------------------- concurrent GenerateToken calls
\* The manager the goroutines share.
ConcManager ==
    MkConfig(AlgorithmHS256, "s1", Nil, Nil, "svc", "api", BaseAccessTTL, BaseRefreshTTL)

\* The state after NewJWTManager(ConcManager) returned.
InitConc ==
    /\ mgr = ConcManager
    /\ now = 0
    /\ InitRest

\* Goroutine g calls m.GenerateToken(claims, tokenType), claims pointing to
\* object o: the nil check passes, now := time.Now(), and the expiry is that
\* of the token type.
Begin(g, o, tokenType) ==
    /\ gor[g].pc = "idle"
    /\ gor' = [gor EXCEPT ![g] = Call("Issuer", o, tokenType, now, EmptyToken)]
    /\ UNCHANGED <<heap, jwtVars>>
    /\ UNCHANGED exceptConc

\* claims.Issuer = m.config.Issuer
SetIssuer(g) ==
    /\ gor[g].pc = "Issuer"
    /\ heap' = [heap EXCEPT ![gor[g].obj].Issuer = mgr.Issuer]
    /\ gor' = [gor EXCEPT ![g].pc = "Audience"]
    /\ UNCHANGED jwtVars
    /\ UNCHANGED exceptConc

\* claims.Audience = jwt.ClaimStrings{m.config.Audience}
SetAudience(g) ==
    /\ gor[g].pc = "Audience"
    /\ heap' = [heap EXCEPT ![gor[g].obj].Audience = <<mgr.Audience>>]
    /\ gor' = [gor EXCEPT ![g].pc = "IssuedAt"]
    /\ UNCHANGED jwtVars
    /\ UNCHANGED exceptConc

\* claims.IssuedAt = jwt.NewNumericDate(now)
SetIssuedAt(g) ==
    /\ gor[g].pc = "IssuedAt"
    /\ heap' = [heap EXCEPT ![gor[g].obj].IssuedAt = NewNumericDate(gor[g].at)]
    /\ gor' = [gor EXCEPT ![g].pc = "ExpiresAt"]
    /\ UNCHANGED jwtVars
    /\ UNCHANGED exceptConc

\* claims.ExpiresAt = jwt.NewNumericDate(now.Add(expiry))
SetExpiresAt(g) ==
    /\ gor[g].pc = "ExpiresAt"
    /\ heap' = [heap EXCEPT ![gor[g].obj].ExpiresAt =
                                NewNumericDate(gor[g].at + expiry(mgr, gor[g].tt))]
    /\ gor' = [gor EXCEPT ![g].pc = "NotBefore"]
    /\ UNCHANGED jwtVars
    /\ UNCHANGED exceptConc

\* claims.NotBefore = jwt.NewNumericDate(now)
SetNotBefore(g) ==
    /\ gor[g].pc = "NotBefore"
    /\ heap' = [heap EXCEPT ![gor[g].obj].NotBefore = NewNumericDate(gor[g].at)]
    /\ gor' = [gor EXCEPT ![g].pc = "Sign"]
    /\ UNCHANGED jwtVars
    /\ UNCHANGED exceptConc

\* token := jwt.NewWithClaims(method, claims); token.SignedString(key): the
\* object is marshalled as it is now, and the call returns.
Sign(g) ==
    /\ gor[g].pc = "Sign"
    /\ gor' = [gor EXCEPT ![g].pc = "done",
                          ![g].out = SignedString(getSigningMethod(mgr),
                                                  heap[gor[g].obj],
                                                  getSigningKey(mgr)).tok]
    /\ UNCHANGED <<heap, jwtVars>>
    /\ UNCHANGED exceptConc

NextConc ==
    \/ Tick
    \/ \E g \in Goroutines, o \in 1..Len(ClaimsObjects), tokenType \in TokenTypes :
          Begin(g, o, tokenType)
    \/ \E g \in Goroutines : SetIssuer(g)
    \/ \E g \in Goroutines : SetAudience(g)
    \/ \E g \in Goroutines : SetIssuedAt(g)
    \/ \E g \in Goroutines : SetExpiresAt(g)
    \/ \E g \in Goroutines : SetNotBefore(g)
    \/ \E g \in Goroutines : Sign(g)

SpecConc == InitConc /\ [][NextConc]_vars

\* ------------------------------------ the config object after construction
\* The constructors keep the pointer they were given (&JWTManager{config:
\* config}, &Hasher{config: config}, &Encryptor{config: config}), and every
\* method reads the config through it, so cobj is both the caller's object
\* and the configuration the component uses.

\* NewJWTManager(config) with a config of the caller's.
BuildJWTManager(config) ==
    /\ comp = NoComponent
    /\ LET r == NewJWTManagerOf(config)
       IN  /\ r.m # Nil
           /\ cobj' = r.m
           /\ comp' = Component("JWTManager", r.m, config # Nil)
    /\ cres' = NoCResult
    /\ UNCHANGED exceptAlias

\* NewHasher(config) with a config of the caller's, or with nil.
BuildHasher(config) ==
    /\ comp = NoComponent
    /\ cobj' = NewHasherOf(config)
    /\ comp' = Component("Hasher", NewHasherOf(config), config # Nil)
    /\ cres' = NoCResult
    /\ UNCHANGED exceptAlias

\* NewEncryptor(config) with a config of the caller's.
BuildEncryptor(config) ==
    /\ comp = NoComponent
    /\ LET r == NewEncryptorOf(config)
       IN  /\ r.err = NoError
           /\ cobj' = config
           /\ comp' = Component("Encryptor", config, TRUE)
    /\ cres' = NoCResult
    /\ UNCHANGED exceptAlias

\* The values a caller may later assign to a field of its config object.
FieldValues(kind) ==
    IF kind = "JWTManager"
    THEN {<<"Issuer", "other">>, <<"Audience", "other-api">>, <<"Secret", "s2">>,
          <<"Algorithm", AlgorithmHS512>>, <<"AccessTokenExpiry", 0>>,
          <<"RefreshTokenExpiry", 0>>}
    ELSE IF kind = "Hasher"
    THEN {<<"BcryptCost", MinCost + 1>>, <<"Argon2Time", 1>>, <<"Argon2KeyLen", 1>>}
    ELSE IF kind = "Encryptor"
    THEN {<<"Key", Key(16, "b")>>}
    ELSE {}

\* The caller assigns to a field of the config object it passed in
\* (config.Issuer = ..., config.BcryptCost = ..., config.Key = ...).
CallerSetsField(fv) ==
    /\ comp.shared
    /\ fv \in FieldValues(comp.kind)
    /\ cobj' = [cobj EXCEPT ![fv[1]] = fv[2]]
    /\ cres' = NoCResult
    /\ UNCHANGED comp
    /\ UNCHANGED exceptAlias

\* The caller overwrites the bytes of the key slice it passed in (key[i] =
\* ...); the config's Key is that same slice.
CallerWritesKeyBytes(id) ==
    /\ comp.shared /\ comp.kind = "Encryptor"
    /\ cobj' = [cobj EXCEPT !.Key = Key(cobj.Key.size, id)]
    /\ cres' = NoCResult
    /\ UNCHANGED comp
    /\ UNCHANGED exceptAlias

\* m.GenerateToken(claims, tokenType) on the manager built.
UseGenerateToken(tokenType) ==
    /\ comp.kind = "JWTManager"
    /\ cres' = CResult("GenerateToken", tokenType, 0, now,
                       GenerateToken(cobj, ClaimsObjects[1], tokenType, now).tok)
    /\ UNCHANGED <<cobj, comp>>
    /\ UNCHANGED exceptAlias

\* h.HashPassword("pw", algorithm) on the hasher built.
UseHashPassword(algorithm, r) ==
    /\ comp.kind = "Hasher"
    /\ cres' = CResult("HashPassword", algorithm, r, now,
                       HashPassword(cobj, "pw", algorithm, r))
    /\ UNCHANGED <<cobj, comp>>
    /\ UNCHANGED exceptAlias

\* e.Encrypt("h") on the encryptor built.
UseEncrypt(r) ==
    /\ comp.kind = "Encryptor"
    /\ cres' = CResult("Encrypt", <<"h">>, r, now, Encrypt(cobj.Key, <<"h">>, r))
    /\ UNCHANGED <<cobj, comp>>
    /\ UNCHANGED exceptAlias

NextAlias ==
    \/ \E config \in {ConcManager} : BuildJWTManager(config)
    \/ \E config \in {SmallHashConfig, Nil} : BuildHasher(config)
    \/ \E config \in {[Key |-> Key(16, "a")], [Key |-> Key(32, "a")]} : BuildEncryptor(config)
    \/ \E fv \in FieldValues(comp.kind) : CallerSetsField(fv)
    \/ \E id \in KeyIds : CallerWritesKeyBytes(id)
    \/ \E tokenType \in TokenTypes : UseGenerateToken(tokenType)
    \/ \E algorithm \in {AlgorithmBcrypt, AlgorithmArgon2}, r \in 1..MaxSalt :
          UseHashPassword(algorithm, r)
    \/ \E r \in 1..MaxNonce : UseEncrypt(r)

SpecAlias == Init /\ [][NextAlias]_vars

\* ------------------------------------------------------------ properties
\* What the properties say about a token, stated on the token itself.
WellFormed(t) ==
    /\ t # EmptyToken
    /\ t.nseg = 3 /\ t.hdr.dec = DecodeOK /\ t.pay.dec = DecodeOK /\ t.sig.dec

\* t is a well-formed token signed under m's algorithm and key.
CorrectlySigned(m, t) ==
    /\ WellFormed(t)
    /\ t.hdr.alg = m.Algorithm
    /\ t.sig = Signature(m.Algorithm, CounterpartKey(m), t.hdr, t.pay)

ClaimsIn(t) == UnmarshalClaims(t.pay.fields)

HasIssuerAndAudience(m, t) ==
    /\ ClaimsIn(t).Issuer = m.Issuer
    /\ \E i \in 1..Len(ClaimsIn(t).Audience) : ClaimsIn(t).Audience[i] = m.Audience

HasWindow(t) ==
    ClaimsIn(t).NotBefore # NoDate /\ ClaimsIn(t).ExpiresAt # NoDate

Identity(c) ==
    [UserID |-> c.UserID, Username |-> c.Username, Email |-> c.Email,
     Roles |-> c.Roles, Custom |-> c.Custom]

Seconds(t) == (t \div TicksPerSecond) * TicksPerSecond

ErrNotValidYet == AppError(CodeUnauthorized, "token is not valid yet")
ErrExpired == AppError(CodeTokenExpired, "token has expired")

\* ParseToken has just been called on a token that is well formed, correctly
\* signed, carries the manager's issuer and audience and has a window.
C1_Case ==
    /\ res.op = "ParseToken"
    /\ CorrectlySigned(mgr, res.in)
    /\ HasIssuerAndAudience(mgr, res.in)
    /\ HasWindow(res.in)

\* C1 as claimed: such a token is accepted exactly when
\* not-before <= now <= expires-at, rejected as not yet valid when
\* now < not-before and as expired when now > expires-at.
C1_Inclusive ==
    C1_Case =>
        LET c == ClaimsIn(res.in)
        IN  /\ (res.err = NoError) <=> (c.NotBefore <= now /\ now <= c.ExpiresAt)
            /\ now < c.NotBefore => res.err = ErrNotValidYet
            /\ now > c.ExpiresAt => res.err = ErrExpired

\* C1, amended: such a token is accepted exactly when
\* not-before <= now < expires-at (the upper bound is exclusive); it is
\* rejected as expired (TOKEN_EXPIRED) when now >= expires-at, and as not yet
\* valid when now < not-before and now < expires-at.
C1_Window ==
    C1_Case =>
        LET c == ClaimsIn(res.in)
        IN  /\ (res.err = NoError) <=> (c.NotBefore <= now /\ now < c.ExpiresAt)
            /\ res.err = NoError => res.claims = c
            /\ res.err # NoError => res.claims = Nil
            /\ now >= c.ExpiresAt => res.err = ErrExpired
            /\ (now < c.NotBefore /\ now < c.ExpiresAt) => res.err = ErrNotValidYet

\* C1's witness: the token is parsed at the very instant of its expires-at,
\* its not-before having passed, and is rejected as expired.
C1_Witness ==
    /\ C1_Case
    /\ now = ClaimsIn(res.in).ExpiresAt
    /\ ClaimsIn(res.in).NotBefore <= now
    /\ res.err = ErrExpired

\* C2: a token whose header names one of the six algorithms, other than the
\* manager's, is rejected by ParseToken whatever key made its signature; and
\* whatever ParseToken accepts was signed under the manager's algorithm with
\* the counterpart of the manager's verification key.
C2_AlgorithmConfusion ==
    /\ (/\ res.op = "ParseToken"
        /\ WellFormed(res.in)
        /\ res.in.hdr.alg \in SupportedAlgorithms
        /\ res.in.hdr.alg # mgr.Algorithm)
           => res.err # NoError /\ res.claims = Nil
    /\ (res.op = "ParseToken" /\ res.err = NoError) => CorrectlySigned(mgr, res.in)

\* C2's witness: an HMAC manager rejects a token of another HMAC algorithm
\* that was signed with the manager's own secret, and an RSA manager rejects an
\* HMAC token signed with the bytes of its public key.
C2_Witness ==
    /\ res.op = "ParseToken"
    /\ WellFormed(res.in)
    /\ res.in.hdr.alg \in HMACAlgorithms
    /\ res.in.hdr.alg # mgr.Algorithm
    /\ \/ mgr.Algorithm \in HMACAlgorithms /\ res.in.sig.k = Bytes(mgr.Secret)
       \/ mgr.Algorithm \in RSAAlgorithms /\ res.in.sig.k = Bytes("pem-k1")
    /\ res.in.sig.alg = res.in.hdr.alg
    /\ HasIssuerAndAudience(mgr, res.in)
    /\ res.err # NoError

\* A correctly signed token with a wrong issuer or audience whose expires-at
\* has passed has just been parsed.
C3_Case ==
    /\ res.op = "ParseToken"
    /\ CorrectlySigned(mgr, res.in)
    /\ ~HasIssuerAndAudience(mgr, res.in)
    /\ ClaimsIn(res.in).ExpiresAt # NoDate
    /\ now > ClaimsIn(res.in).ExpiresAt

C4_Case ==
    /\ res.op = "ParseToken"
    /\ res.in # EmptyToken
    /\ ~CorrectlySigned(mgr, res.in)

\* C4: a token rejected for its structure, its algorithm or its signature is
\* returned with INVALID_TOKEN, never as expired, not yet valid or used before
\* issued.
C4_MalformedIsInvalidToken ==
    C4_Case => res.err = AppError(CodeInvalidToken, "failed to parse token")

\* C5: ParseToken of a token GenerateToken returned, with one character of
\* its payload segment changed, fails with INVALID_TOKEN and returns no claims.
C5_TamperedIsInvalidToken ==
    (res.op = "ParseToken" /\ origin.op = "Tamper" /\ res.in = tok)
        => res.err.code = CodeInvalidToken /\ res.claims = Nil

\* The token GenerateToken returned for a type whose TTL is 0 has just been
\* parsed by the same manager.
C6_Case ==
    /\ res.op = "ParseToken"
    /\ origin.op = "GenerateToken"
    /\ tok # EmptyToken
    /\ res.in = tok
    /\ expiry(mgr, origin.tt) = 0

\* The manager's verification key is the counterpart of its signing key: the
\* one secret for HMAC, the public half of the private key for RSA.
KeysMatch(m) ==
    m.Algorithm \in RSAAlgorithms => m.PublicKey = RSAPublic(m.PrivateKey.v)

\* C6 as claimed: a token generated with a TTL of 0 is rejected as expired by
\* the next ParseToken of the same manager, also at the instant of its
\* generation.
C6_ZeroTTLExpiredEveryManager ==
    C6_Case => res.err = ErrExpired /\ res.claims = Nil

\* C6, amended: a token generated with a TTL of 0 is never accepted by the
\* next ParseToken of the same manager, also at the instant of its
\* generation; it is rejected as expired when the manager's verification key
\* is the counterpart of its signing key (an RSA manager constructed with the
\* public key of another key pair rejects it for its signature).
C6_ZeroTTLExpired ==
    C6_Case =>
        /\ res.err # NoError /\ res.claims = Nil
        /\ KeysMatch(mgr) => res.err = ErrExpired

\* C6's witness: the token is parsed at the instant it was generated, a whole
\* second, and rejected as expired.
C6_Witness ==
    /\ C6_Case
    /\ origin.at = now
    /\ now = Seconds(now)
    /\ res.err = ErrExpired

\* The token GenerateToken returned for non-nil claims, under a positive TTL,
\* has just been parsed by the same manager before its expires-at.
C7_Case ==
    /\ res.op = "ParseToken"
    /\ origin.op = "GenerateToken"
    /\ origin.claims # Nil
    /\ tok # EmptyToken
    /\ res.in = tok
    /\ expiry(mgr, origin.tt) > 0
    /\ now < ClaimsIn(tok).ExpiresAt

C7_RoundTripHolds ==
    /\ res.err = NoError
    /\ res.claims # Nil
    /\ Identity(res.claims) = Identity(origin.claims)

\* C7 as claimed: for every constructed manager the round trip succeeds and
\* returns the identity fields passed to GenerateToken.
C7_RoundTripEveryManager ==
    C7_Case => C7_RoundTripHolds

\* C7, amended: the round trip succeeds and returns the identity fields for
\* every constructed manager whose verification key is the counterpart of its
\* signing key (an RSA manager constructed with the public key of another
\* key pair rejects its own tokens).
C7_RoundTrip ==
    (C7_Case /\ KeysMatch(mgr)) => C7_RoundTripHolds

\* C7's witness: an RSA manager with a matching key pair has parsed, some
\* time after issuing it, its own token and returned the caller's roles.
C7_Witness ==
    /\ C7_Case /\ KeysMatch(mgr)
    /\ mgr.Algorithm \in RSAAlgorithms
    /\ now > origin.at
    /\ Len(origin.claims.Roles) = 2
    /\ C7_RoundTripHolds

\* GenerateToken has just returned a token.
C8_Case ==
    /\ res.op = "GenerateToken"
    /\ res.err = NoError

C8_IssuerAndAudience ==
    /\ ClaimsIn(res.tok).Issuer = mgr.Issuer
    /\ ClaimsIn(res.tok).Audience = <<mgr.Audience>>

\* C8 as claimed: issued-at and not-before are the time of the call and
\* expires-at is that time plus the expiry of the token type.
C8_StampsCallTime ==
    C8_Case =>
        /\ C8_IssuerAndAudience
        /\ ClaimsIn(res.tok).IssuedAt = now
        /\ ClaimsIn(res.tok).NotBefore = now
        /\ ClaimsIn(res.tok).ExpiresAt =
              now + (IF origin.tt = AccessToken THEN mgr.AccessTokenExpiry
                     ELSE mgr.RefreshTokenExpiry)

\* C8, amended: issued-at and not-before are the time of the call cut to the
\* whole second, and expires-at is that time plus the expiry of the token
\* type, cut to the whole second.
C8_StampsWholeSeconds ==
    C8_Case =>
        /\ C8_IssuerAndAudience
        /\ ClaimsIn(res.tok).IssuedAt = Seconds(now)
        /\ ClaimsIn(res.tok).NotBefore = Seconds(now)
        /\ ClaimsIn(res.tok).ExpiresAt =
              Seconds(now + (IF origin.tt = AccessToken THEN mgr.AccessTokenExpiry
                             ELSE mgr.RefreshTokenExpiry))
        /\ res.obj.ExpiresAt = ClaimsIn(res.tok).ExpiresAt

\* C8's witness: a refresh token has been issued between two whole seconds by
\* a manager whose two expiries differ, for claims that came with an issuer
\* and an expires-at of the caller's.
C8_Witness ==
    /\ C8_Case
    /\ origin.tt = RefreshToken
    /\ mgr.AccessTokenExpiry # mgr.RefreshTokenExpiry
    /\ now # Seconds(now)
    /\ origin.claims.Issuer = "evil"
    /\ ClaimsIn(res.tok).ExpiresAt = Seconds(now + mgr.RefreshTokenExpiry)

\* The tokens the call just made has issued.
IssuedNow ==
    IF res.err # NoError THEN {}
    ELSE IF res.op \in {"GenerateToken", "RefreshToken"} THEN {res.tok}
    ELSE IF res.op = "GenerateTokenPair" THEN {res.tok, res.tok2}
    ELSE {}

\* The tokens the call just made has issued, each with the expiry its
\* manager is configured with for the token's type.
IssuedWithExpiry ==
    IF res.err # NoError THEN {}
    ELSE IF res.op = "GenerateToken"
    THEN {<<res.tok, IF origin.tt = AccessToken THEN mgr.AccessTokenExpiry
                     ELSE mgr.RefreshTokenExpiry>>}
    ELSE IF res.op = "RefreshToken" THEN {<<res.tok, mgr.AccessTokenExpiry>>}
    ELSE IF res.op = "GenerateTokenPair"
    THEN {<<res.tok, mgr.AccessTokenExpiry>>, <<res.tok2, mgr.RefreshTokenExpiry>>}
    ELSE {}

\* C9 as claimed: every issued token has its expires-at strictly after its
\* issued-at and its not-before, whatever configuration NewJWTManager
\* accepted.
C9_ExpiresAfterIssued ==
    \A t \in IssuedNow :
        /\ ClaimsIn(t).ExpiresAt > ClaimsIn(t).IssuedAt
        /\ ClaimsIn(t).ExpiresAt > ClaimsIn(t).NotBefore

\* C9, amended: every issued token has its issued-at equal to its not-before;
\* its expires-at is strictly after both when the manager's expiry for the
\* token's type is a second or more, and equal to both when that expiry is 0,
\* which NewJWTManager accepts.
C9_ExpiresAfterIssuedFromOneSecond ==
    \A p \in IssuedWithExpiry :
        /\ ClaimsIn(p[1]).IssuedAt = ClaimsIn(p[1]).NotBefore
        /\ p[2] >= TicksPerSecond => ClaimsIn(p[1]).ExpiresAt > ClaimsIn(p[1]).IssuedAt
        /\ p[2] = 0 => ClaimsIn(p[1]).ExpiresAt = ClaimsIn(p[1]).IssuedAt

\* C9's witness: GenerateTokenPair, called between two whole seconds by a
\* manager whose access expiry is one second and whose refresh expiry is 0,
\* has issued an access token that expires after its issued-at and a refresh
\* token that expires at its issued-at.
C9_Witness ==
    /\ res.op = "GenerateTokenPair" /\ res.err = NoError
    /\ now # Seconds(now)
    /\ mgr.AccessTokenExpiry = TicksPerSecond
    /\ mgr.RefreshTokenExpiry = 0
    /\ ClaimsIn(res.tok).ExpiresAt > ClaimsIn(res.tok).IssuedAt
    /\ ClaimsIn(res.tok2).ExpiresAt = ClaimsIn(res.tok2).IssuedAt

\* RefreshToken has just been called.
C10_Case == res.op = "RefreshToken"

C10_OnlyWhenParsed ==
    /\ (res.err = NoError) <=> (ParseToken(mgr, res.in, now).err = NoError)
    /\ res.err # NoError =>
          res.tok = EmptyToken /\ res.err = ParseToken(mgr, res.in, now).err

C10_IdentityOnly ==
    /\ WellFormed(res.tok)
    /\ Identity(ClaimsIn(res.tok)) = Identity(ClaimsIn(res.in))
    /\ ClaimsIn(res.tok).Subject = "" /\ ClaimsIn(res.tok).ID = ""
    /\ ClaimsIn(res.tok).Issuer = mgr.Issuer
    /\ ClaimsIn(res.tok).Audience = <<mgr.Audience>>

\* C10 as claimed: the new token's issued-at and not-before are the time of
\* the RefreshToken call and its expires-at that time plus AccessTokenExpiry.
C10_RefreshStampsCallTime ==
    C10_Case =>
        /\ C10_OnlyWhenParsed
        /\ res.err = NoError =>
              /\ C10_IdentityOnly
              /\ ClaimsIn(res.tok).IssuedAt = now
              /\ ClaimsIn(res.tok).NotBefore = now
              /\ ClaimsIn(res.tok).ExpiresAt = now + mgr.AccessTokenExpiry

\* C10, amended: RefreshToken returns a token only when ParseToken accepts
\* its argument, and else that error and the empty token; the new token
\* carries the identity fields of the old one, no subject, and issued-at and
\* not-before equal to the time of the RefreshToken call cut to the whole
\* second and expires-at equal to that time plus AccessTokenExpiry, cut to the
\* whole second.
C10_Refresh ==
    C10_Case =>
        /\ C10_OnlyWhenParsed
        /\ res.err = NoError =>
              /\ C10_IdentityOnly
              /\ ClaimsIn(res.tok).IssuedAt = Seconds(now)
              /\ ClaimsIn(res.tok).NotBefore = Seconds(now)
              /\ ClaimsIn(res.tok).ExpiresAt = Seconds(now + mgr.AccessTokenExpiry)

\* C10's witness: a refresh token with a subject was exchanged, a second or
\* more after it was made, for a token whose three dates all differ from
\* the old token's.
C10_Witness ==
    /\ C10_Case
    /\ res.err = NoError
    /\ ClaimsIn(res.in).ExpiresAt # NoDate
    /\ ClaimsIn(res.in).ExpiresAt # ClaimsIn(res.tok).ExpiresAt
    /\ ClaimsIn(res.in).IssuedAt # ClaimsIn(res.tok).IssuedAt
    /\ ClaimsIn(res.in).NotBefore # ClaimsIn(res.tok).NotBefore
    /\ ClaimsIn(res.in).Subject # ""
    /\ ClaimsIn(res.tok).UserID = ClaimsIn(res.in).UserID
    /\ ClaimsIn(res.tok).ExpiresAt = Seconds(now + mgr.AccessTokenExpiry)
\* ------------------------------------------------------------------ C11
\* The configuration NewJWTManager was called with (nil stands for the
\* default one) lacks key material for its algorithm, or names an algorithm
\* that is none of the six.
C11_Config == IF res.in = Nil THEN DefaultJWTConfig ELSE res.in

C11_Misconfigured(c) ==
    \/ c.Algorithm \in HMACAlgorithms /\ c.Secret = ""
    \/ c.Algorithm \in RSAAlgorithms /\ (c.PrivateKey = Nil \/ c.PublicKey = Nil)
    \/ c.Algorithm \notin SupportedAlgorithms

\* C11: NewJWTManager returns an error and no manager for an HMAC algorithm
\* with an empty secret, an RSA algorithm with a missing private or public
\* key, and an algorithm that is none of the six, and a manager otherwise;
\* a constructed manager has a signing key and a verification key of the
\* kind its algorithm needs, and no GenerateToken, GenerateTokenPair,
\* ParseToken or RefreshToken of it fails for its signing (INTERNAL_ERROR).
C11_MisconfigurationAtConstruction ==
    /\ res.op = "NewJWTManager" =>
          IF C11_Misconfigured(C11_Config)
          THEN res.err # NoError /\ mgr = Nil
          ELSE res.err = NoError /\ mgr = C11_Config
    /\ mgr # Nil =>
          /\ getSigningKey(mgr) # Nil /\ getVerificationKey(mgr) # Nil
          /\ SignKeyOK(getSigningMethod(mgr), getSigningKey(mgr))
          /\ mgr.Algorithm \in HMACAlgorithms => getVerificationKey(mgr).v # ""
          /\ mgr.Algorithm \in RSAAlgorithms => getVerificationKey(mgr).t = "rsapub"
          /\ res.err.code # CodeInternal
          /\ (res.op = "GenerateToken" /\ origin.claims # Nil) => res.err = NoError

\* C11's witness: NewJWTManager has refused an RSA configuration that has its
\* private key and no public key.
C11_Witness ==
    /\ res.op = "NewJWTManager"
    /\ res.in # Nil
    /\ res.in.Algorithm \in RSAAlgorithms
    /\ res.in.PrivateKey # Nil /\ res.in.PublicKey = Nil
    /\ res.err.code = CodeBadRequest
    /\ mgr = Nil

\* ------------------------------------------------------------------ C12
\* ParseToken has just been given a token that is well-formed, correctly
\* signed and inside its validity window.
C12_Case ==
    /\ res.op = "ParseToken"
    /\ WellFormed(res.in)
    /\ CorrectlySigned(mgr, res.in)
    /\ ClaimsIn(res.in).ExpiresAt = NoDate \/ now < ClaimsIn(res.in).ExpiresAt
    /\ ClaimsIn(res.in).NotBefore = NoDate \/ now >= ClaimsIn(res.in).NotBefore

\* C12 as claimed: ParseToken returns claims only for a token whose issuer is
\* the manager's and whose audience is the manager's audience and nothing
\* else; a correctly signed, unexpired token that differs in either is
\* rejected with an error and no claims.
C12_AudienceEquals ==
    /\ (res.op = "ParseToken" /\ res.claims # Nil) =>
          /\ ClaimsIn(res.in).Issuer = mgr.Issuer
          /\ ClaimsIn(res.in).Audience = <<mgr.Audience>>
    /\ (C12_Case /\ (\/ ClaimsIn(res.in).Issuer # mgr.Issuer
                     \/ ClaimsIn(res.in).Audience # <<mgr.Audience>>)) =>
          res.err # NoError /\ res.claims = Nil

\* C12, amended: ParseToken returns claims only for a token whose issuer is
\* the manager's and whose audience list contains the manager's audience; a
\* correctly signed, unexpired token with another issuer, or whose audience
\* list does not contain the manager's audience, is rejected with an error
\* (UNAUTHORIZED) and no claims.
C12_AudienceContains ==
    /\ (res.op = "ParseToken" /\ (res.claims # Nil \/ res.err = NoError)) =>
          /\ res.claims # Nil /\ res.err = NoError
          /\ HasIssuerAndAudience(mgr, res.in)
          /\ res.claims.Issuer = mgr.Issuer
    /\ (C12_Case /\ ~HasIssuerAndAudience(mgr, res.in)) =>
          res.err.code = CodeUnauthorized /\ res.claims = Nil

\* C12's witness: a correctly signed token without an expires-at, with the
\* manager's audience and another issuer, has been rejected as unauthorized.
C12_Witness ==
    /\ C12_Case
    /\ ClaimsIn(res.in).Issuer # mgr.Issuer
    /\ ClaimsIn(res.in).Audience = <<mgr.Audience>>
    /\ ClaimsIn(res.in).ExpiresAt = NoDate
    /\ res.err = AppError(CodeUnauthorized, "invalid token issuer")
    /\ res.claims = Nil

\* ------------------------------------------------------------------ C13
Encrypted == eres.op \in {"Encrypt", "EncryptBytes"}
Decrypted == eres.op \in {"Decrypt", "DecryptBytes"}

\* Decrypt or DecryptBytes has just been given the envelope as the Encryptor
\* of the same key made it.
C13_Case == Decrypted /\ env.state = "made" /\ env.key = enc

\* C13 as claimed: every plaintext, the empty one included, is encrypted, and
\* decrypting the envelope under the same key returns it.
C13_RoundTripAnyLength ==
    /\ Encrypted => eres.out.err = NoError
    /\ C13_Case => eres.out.err = NoError /\ eres.out.raw = env.plain

\* C13, amended: every plaintext that is not empty is encrypted, and
\* decrypting the envelope under the same key returns it; the empty
\* plaintext is refused by Encrypt and EncryptBytes (BAD_REQUEST) and no
\* envelope is made.
C13_RoundTrip ==
    /\ Encrypted =>
          IF eres.plain = <<>>
          THEN /\ eres.out.err = AppError(CodeBadRequest, "plaintext cannot be empty")
               /\ eres.out.text = EmptyString /\ eres.out.raw = <<>>
          ELSE eres.out.err = NoError
    /\ C13_Case =>
          /\ eres.out.err = NoError /\ ~eres.out.panic
          /\ eres.out.raw = env.plain

\* C13's witness: Decrypt has returned the two different bytes that an
\* Encryptor of the same AES-256 key had sealed into its text.
C13_Witness ==
    /\ C13_Case
    /\ eres.op = "Decrypt"
    /\ enc.size = 32
    /\ Len(env.text.bytes) = NonceSize + 2 + TagSize
    /\ Len(env.plain) = 2 /\ env.plain[1] # env.plain[2]
    /\ eres.out.raw = env.plain

\* ------------------------------------------------------------------ C14
\* Decrypt or DecryptBytes has just been given an envelope of at least the
\* nonce's length that had one byte altered or was made under another key.
C14_Case ==
    /\ Decrypted
    /\ env.form # "none"
    /\ Len(EnvelopeBytes) >= NonceSize
    /\ env.state = "altered" \/ (env.state = "made" /\ env.key # enc)

\* C14: such an envelope never yields plaintext, and the error is one and the
\* same, code and message, whichever of the two it was.
C14_OneAuthenticationError ==
    C14_Case =>
        /\ eres.out.err = ErrAuthentication
        /\ eres.out.raw = <<>> /\ eres.out.text = EmptyString
        /\ ~eres.out.panic

\* C14's witness: an envelope made under one AES-128 key was refused by the
\* Encryptor of another AES-128 key with the authentication error.
C14_Witness ==
    /\ C14_Case
    /\ env.state = "made"
    /\ env.key.size = 16 /\ enc.size = 16 /\ env.key.id # enc.id
    /\ eres.out.err = ErrAuthentication

\* ------------------------------------------------------------------ C15
\* Decrypt or DecryptBytes has just been given fewer bytes than a nonce.
C15_Case == Decrypted /\ Len(EnvelopeBytes) < NonceSize /\ env.state # "garbled"

\* C15 as claimed: no panic, and an error of another kind (code) than the
\* authentication failure's.
C15_DistinctKind ==
    C15_Case =>
        /\ ~eres.out.panic
        /\ eres.out.err # NoError
        /\ eres.out.err.code # ErrAuthentication.code

\* What Decrypt and DecryptBytes do for such an envelope: no panic and no
\* plaintext; the error carries the code of the authentication failure,
\* BAD_REQUEST, and differs from it by its message only: "ciphertext cannot
\* be empty" for no bytes, "ciphertext too short" for 1 to NonceSize - 1
\* bytes.
C15_DistinctMessage ==
    C15_Case =>
        /\ ~eres.out.panic
        /\ eres.out.raw = <<>>
        /\ eres.out.err.code = CodeBadRequest
        /\ eres.out.err.msg = IF Len(EnvelopeBytes) = 0
                              THEN "ciphertext cannot be empty"
                              ELSE "ciphertext too short"
        /\ eres.out.err.msg # ErrAuthentication.msg

\* DecryptBytes has refused an envelope of NonceSize - 1 bytes as too short.
C15_Witness ==
    /\ C15_Case
    /\ eres.op = "DecryptBytes"
    /\ Len(EnvelopeBytes) = NonceSize - 1
    /\ eres.out.err = AppError(CodeBadRequest, "ciphertext too short")

\* ------------------------------------------------------------------ C16
\* C16 as claimed: no encryption draws a nonce that an earlier one under the
\* same key drew, and encrypting the same plaintext again yields another
\* envelope.
C16_NeverReused ==
    (Encrypted /\ eres.out.err = NoError) =>
        /\ ~eres.reused
        /\ eres.again => ~eres.same

\* C16, amended: every encryption puts in front of its envelope the nonce the
\* random source gave to that call, whatever the plaintext; the Encryptor
\* keeps no record of the nonces it used, so encrypting the same plaintext
\* again yields another envelope whenever the random source gives a value it
\* had not given before under that key.
C16_FreshAsTheRandomSource ==
    (Encrypted /\ eres.out.err = NoError) =>
        /\ SubSeq(EnvelopeBytes, 1, NonceSize) = Nonce(env.nonce)
        /\ env.nonce \in drawn
        /\ (eres.again /\ ~eres.reused) => ~eres.same

\* C16's witness: EncryptBytes has sealed the plaintext of the call before it
\* with a nonce not drawn before, into another envelope.
C16_Witness ==
    /\ eres.op = "EncryptBytes" /\ eres.out.err = NoError
    /\ eres.again /\ ~eres.reused /\ ~eres.same
    /\ Cardinality(drawn) = 2

\* ------------------------------------------------------------------ C17
\* C17: GenerateAESKey returns a key of the requested length, which
\* NewEncryptor accepts, for 16, 24 and 32 (bytes), and a BAD_REQUEST error
\* and no key for every other size (128, 192 and 256 included); the three
\* named generators return keys of 16, 24 and 32 bytes that NewEncryptor
\* accepts.
C17_KeySizes ==
    /\ eres.op = "GenerateAESKey" =>
          IF eres.size \in {16, 24, 32}
          THEN /\ eres.out.err = NoError
               /\ eres.out.key.size = eres.size
               /\ NewEncryptorOf([Key |-> eres.out.key]).err = NoError
          ELSE eres.out.err.code = CodeBadRequest /\ eres.out.key = NoKey
    /\ eres.op = "GenerateAESNamedKey" =>
          /\ eres.out.err = NoError
          /\ eres.out.key.size * 8 = eres.size
          /\ NewEncryptorOf([Key |-> eres.out.key]).err = NoError

\* C17's witness: GenerateAES192Key has returned a key of 24 bytes.
C17_Witness ==
    /\ eres.op = "GenerateAESNamedKey"
    /\ eres.size = 192
    /\ eres.out.key.size = 24
    /\ eres.out.err = NoError

\* ------------------------------------------------------------------ C18
\* C18: under every Hasher, HashPassword of a non-empty password with bcrypt
\* or Argon2id returns a hash, and ComparePassword of that hash under the
\* same Hasher returns true for that password and false for every other.
C18_HashCompareAgreement ==
    /\ (/\ hres.op = "HashPassword" /\ hres.password # ""
        /\ hres.algorithm \in {AlgorithmBcrypt, AlgorithmArgon2})
          => hres.out.err = NoError /\ ~hres.out.panic
    /\ (/\ hres.op = "ComparePassword" /\ hres.password # ""
        /\ held.state = "made" /\ held.cfg = hasher)
          => /\ hres.out.err = NoError /\ ~hres.out.panic
             /\ hres.out.matched = (hres.password = held.pw)

\* ------------------------------------------------------------------ C19
\* The fields of a string between its '$', every one of them.
RECURSIVE FieldsFrom(_, _, _, _)
FieldsFrom(str, i, fields, current) ==
    IF i > Len(str) THEN Append(fields, current)
    ELSE IF str[i] = Chr("$")
    THEN FieldsFrom(str, i + 1, Append(fields, current), <<>>)
    ELSE FieldsFrom(str, i + 1, fields, Append(current, str[i]))
Fields(str) == FieldsFrom(str, 1, <<>>, <<>>)

\* An unpadded base64 text, and the two layouts of a hash string:
\* $argon2id$v=<n>$m=<n>,t=<n>,p=<n>$<salt>$<digest> and
\* $2<minor>$<cost>$<salt and digest>.
IsRawBase64(field) ==
    Len(field) = 1 /\ field[1].kind = "b64" /\ ~field[1].pad
ArgonLayout(str) ==
    LET f == Fields(str)
    IN  /\ Len(f) = 6
        /\ f[1] = <<>>
        /\ f[2] = <<Word("argon2id")>>
        /\ Len(f[3]) = 1 /\ f[3][1].kind = "v"
        /\ Len(f[4]) = 1 /\ f[4][1].kind = "params"
        /\ f[4][1].nums[3] <= MaxUint8
        /\ f[5] = <<>> \/ IsRawBase64(f[5])
        /\ IsRawBase64(f[6])
BcryptLayout(str) ==
    /\ Len(str) = 7
    /\ SubSeq(str, 1, 2) = <<Chr("$"), Chr("2")>>
    /\ str[3].kind = "chr" /\ str[3] # Chr("$")
    /\ str[4] = Chr("$") /\ str[6] = Chr("$")
    /\ str[5].kind = "cost" /\ str[5].nums[1] \in MinCost..MaxCost
    /\ str[7].kind = "bcrypt"

\* ComparePassword has just been given a non-empty password and the
\* non-empty string held.
Compared == hres.op = "ComparePassword" /\ hres.password # "" /\ held.str # <<>>

\* C19: for a string of neither layout ComparePassword returns an error,
\* never a result without one.
C19_UnparseableIsError ==
    (Compared /\ ~ArgonLayout(held.str) /\ ~BcryptLayout(held.str))
        => hres.out.panic \/ hres.out.err # NoError

\* ------------------------------------------------------------------ C20
\* C20: ComparePassword of two non-empty strings never panics, and another
\* password than the one a hash was made of gives false and no error.
C20_NeverPanics ==
    Compared =>
        /\ ~hres.out.panic
        /\ (held.state = "made" /\ hres.password # held.pw)
              => hres.out.err = NoError /\ ~hres.out.matched

\* ------------------------------------------------------------------ C21
\* ComparePassword has just been given the string held, as HashPassword
\* returned it to some Hasher.
C21_Case == hres.op = "ComparePassword" /\ held.state = "made"

\* C21: a hash that HashPassword returned under one configuration is
\* verified under every configuration by the parameters written in it: true
\* and no error for its password, false for every other password (with no
\* error unless that password is empty).
C21_StoredParameters ==
    C21_Case =>
        /\ ~hres.out.panic
        /\ hres.out.matched = (hres.password = held.pw)
        /\ (hres.out.err = NoError) = (hres.password # "")

\* C21's witness: an Argon2id hash made under the small configuration has
\* been verified under the default configuration.
C21_Witness ==
    /\ C21_Case
    /\ held.alg = AlgorithmArgon2
    /\ held.cfg = SmallHashConfig /\ hasher = DefaultHashConfig
    /\ hres.password = held.pw /\ hres.out.matched


\* ------------------------------------------------------------------ C22
\* ComparePassword has just been given a non-empty password and the string
\* held, as HashPassword returned it.
C22_Case == Compared /\ held.state = "made"

\* C22: ComparePassword answers for a hash of the bcrypt path what
\* compareBcrypt answers and for a hash of the Argon2id path what
\* compareArgon2 answers, and the other path accepts neither: compareArgon2
\* refuses every bcrypt hash and compareBcrypt every Argon2id hash with an
\* error, whatever the password.
C22_RoutedByAlgorithm ==
    C22_Case =>
        IF held.alg = AlgorithmBcrypt
        THEN /\ hres.out = compareBcrypt(hasher, hres.password, held.str)
             /\ compareArgon2(hasher, hres.password, held.str).err # NoError
             /\ ~compareArgon2(hasher, hres.password, held.str).matched
        ELSE /\ hres.out = compareArgon2(hasher, hres.password, held.str)
             /\ compareBcrypt(hasher, hres.password, held.str).err # NoError
             /\ ~compareBcrypt(hasher, hres.password, held.str).matched

\* C22's witness: an Argon2id hash has been verified for its password, and
\* compareBcrypt refuses it.
C22_Witness ==
    /\ C22_Case
    /\ held.alg = AlgorithmArgon2
    /\ hres.out.matched
    /\ compareBcrypt(hasher, hres.password, held.str).err
          = AppError(CodeInternal, "failed to compare bcrypt hash")


\* ------------------------------------------------------------------ C23
\* HashPassword has just returned an Argon2id hash, now held.
C23_Case ==
    /\ hres.op = "HashPassword" /\ hres.algorithm = AlgorithmArgon2
    /\ hres.out.err = NoError /\ ~hres.out.panic
    /\ held.str = hres.out.text

\* C23: the string has exactly 6 fields between its '$': none, "argon2id",
\* "v=19", the Hasher's memory, time and threads, the unpadded base64 of a
\* salt from the random source of the configured length (16 bytes by
\* default), and the unpadded base64 of a digest of the configured length.
C23_ArgonFormat ==
    C23_Case =>
        LET f == Fields(hres.out.text) IN
        /\ Len(f) = 6
        /\ f[1] = <<>>
        /\ f[2] = <<Word("argon2id")>>
        /\ f[3] = <<VersionText(19)>>
        /\ f[4] = <<ParamsText(hasher.Argon2Memory, hasher.Argon2Time,
                               hasher.Argon2Threads)>>
        /\ DecodePart(f[5]).ok /\ DecodePart(f[6]).ok
        /\ \E r \in 1..MaxSalt :
              DecodePart(f[5]).bytes = Salt(r, hasher.Argon2SaltLen)
        /\ Len(DecodePart(f[6]).bytes) = hasher.Argon2KeyLen
        /\ hasher = DefaultHashConfig => Len(DecodePart(f[5]).bytes) = 16

\* C23's witness: the Hasher of the default configuration has returned a
\* hash with a salt of 16 and a digest of 32 bytes.
C23_Witness ==
    /\ C23_Case
    /\ hasher = NewHasherOf(Nil)
    /\ Len(DecodePart(Fields(hres.out.text)[5]).bytes) = 16
    /\ Len(DecodePart(Fields(hres.out.text)[6]).bytes) = 32


\* ------------------------------------------------------------------ C28
\* C28: RefreshToken succeeds on exactly the tokens ParseToken of the same
\* manager accepts at that time and fails with ParseToken's error on the
\* others; a token GenerateToken has just returned, of either type, and a
\* token RefreshToken has just returned are treated by RefreshToken as
\* ParseToken treats them.
C28_RefreshAcceptsWhatParseAccepts ==
    /\ res.op = "RefreshToken" =>
          /\ (res.err = NoError) <=> (ParseToken(mgr, res.in, now).err = NoError)
          /\ res.err = ParseToken(mgr, res.in, now).err
          /\ res.err = NoError =>
                RefreshTokenOf(mgr, res.tok, now).err
                    = ParseToken(mgr, res.tok, now).err
    /\ (res.op = "GenerateToken" /\ res.err = NoError) =>
          RefreshTokenOf(mgr, res.tok, now).err = ParseToken(mgr, res.tok, now).err

\* C28's witness: a manager whose refresh tokens expire at issue has
\* exchanged a token that expires a second after it was issued, which is an
\* access token of its own, for a new one.
C28_Witness ==
    /\ res.op = "RefreshToken" /\ res.err = NoError
    /\ mgr.RefreshTokenExpiry = 0 /\ mgr.AccessTokenExpiry = TicksPerSecond
    /\ ClaimsIn(res.in).IssuedAt # NoDate
    /\ ClaimsIn(res.in).ExpiresAt = ClaimsIn(res.in).IssuedAt + TicksPerSecond
    /\ WellFormed(res.tok)

\* ------------------------------------------------------------------ C29
\* GenerateToken or GenerateTokenPair has just returned for a claims object.
C29_Case ==
    /\ res.op \in {"GenerateToken", "GenerateTokenPair"}
    /\ res.err = NoError

\* C29: after the call the caller's object holds the manager's issuer and
\* audience, the call's time as issued-at and not-before and the expiry of
\* the token issued last as expires-at, whatever it held in them before; its
\* other fields are as before; the token carries what the object held when
\* it was signed, so after GenerateTokenPair the object holds the refresh
\* expiry and the access token the access expiry.
C29_StampsCallersObject ==
    C29_Case =>
        LET last == IF res.op = "GenerateTokenPair" THEN RefreshToken ELSE origin.tt
        IN  /\ res.obj = [origin.claims EXCEPT
                             !.Issuer = mgr.Issuer,
                             !.Audience = <<mgr.Audience>>,
                             !.IssuedAt = Seconds(now),
                             !.ExpiresAt = Seconds(now + expiry(mgr, last)),
                             !.NotBefore = Seconds(now)]
            /\ Identity(res.obj) = Identity(origin.claims)
            /\ IF res.op = "GenerateToken"
               THEN ClaimsIn(res.tok) = res.obj
               ELSE /\ ClaimsIn(res.tok2) = res.obj
                    /\ ClaimsIn(res.tok)
                         = [res.obj EXCEPT
                               !.ExpiresAt = Seconds(now + mgr.AccessTokenExpiry)]

\* C29's witness: after GenerateTokenPair for an object that came with an
\* issuer and an expires-at of the caller's, the object holds another
\* expires-at than the access token returned.
C29_Witness ==
    /\ C29_Case
    /\ res.op = "GenerateTokenPair"
    /\ origin.claims.Issuer = "evil" /\ origin.claims.ExpiresAt # NoDate
    /\ res.obj.Issuer = mgr.Issuer
    /\ res.obj.ExpiresAt # ClaimsIn(res.tok).ExpiresAt
    /\ res.obj.ExpiresAt # origin.claims.ExpiresAt



\* The code the claim gives each status.
C26_MappedCode(status) ==
    CASE status = 400 -> "BAD_REQUEST"
      [] status = 401 -> "UNAUTHORIZED"
      [] status = 403 -> "FORBIDDEN"
      [] status = 404 -> "NOT_FOUND"
      [] status = 409 -> "CONFLICT"
      [] status = 429 -> "TOO_MANY_REQUESTS"
      [] status = 500 -> "INTERNAL_ERROR"
      [] status = 501 -> "NOT_IMPLEMENTED"
      [] status = 503 -> "SERVICE_UNAVAILABLE"
      [] OTHER -> "UNKNOWN_ERROR"

\* C26 as stated: for every integer status, FromHTTPStatus(status) reports
\* that same status from GetHTTPStatus() and carries the code mapped to it.
\* Status 0 is the AppError's "no override" value, so GetHTTPStatus() falls
\* back to the status of UNKNOWN_ERROR, 500.
C26_EveryStatusRoundTrips ==
    ares.op = "FromHTTPStatus" =>
        /\ GetHTTPStatus(ares.out.ret) = ares.status
        /\ ares.out.ret.Code = C26_MappedCode(ares.status)

\* C26: for every integer status other than 0, FromHTTPStatus(status) reports
\* that same status from GetHTTPStatus(); FromHTTPStatus(0) reports 500; and
\* for every status the Code is the one mapped to 400, 401, 403, 404, 409,
\* 429, 500, 501 and 503, and UNKNOWN_ERROR for any other.
C26_NonZeroStatusRoundTrips ==
    ares.op = "FromHTTPStatus" =>
        /\ ares.status # 0 => GetHTTPStatus(ares.out.ret) = ares.status
        /\ ares.status = 0 => GetHTTPStatus(ares.out.ret) = 500
        /\ ares.out.ret.Code = C26_MappedCode(ares.status)

\* FromHTTPStatus was called with a status that no code maps to and that is
\* not the status of the code it got.
C26_Witness ==
    /\ ares.op = "FromHTTPStatus"
    /\ ares.status = 402
    /\ ares.out.ret.Code = "UNKNOWN_ERROR"

\* C27 as stated: for every non-nil err, code and non-empty message, Wrap
\* returns an AppError with that Code and Message, Cause = err, Details =
\* err.Error() and Unwrap() = err; Wrap(nil, ...) returns nil.  An err that is
\* an *AppError already comes back with its own Code, Message and Cause.
C27_WrapOfAnyError ==
    ares.op = "Wrap" =>
        IF ares.err = NilErr THEN ares.out = WrapOut(NilErr, FALSE)
        ELSE Given(ares.message) =>
                /\ ~ares.out.panic
                /\ ares.out.ret # NilErr
                /\ ares.out.ret.Code = ares.code
                /\ ares.out.ret.Message = ares.message[1]
                /\ ares.out.ret.Cause = ares.err
                /\ ares.out.ret.Details = ErrorText(ares.err)
                /\ Unwrap(ares.out.ret) = ares.err

\* C27: for every non-nil err that is not an *AppError, every code and every
\* non-empty message, Wrap returns a new AppError with that Code and Message,
\* Cause = err, Details = err.Error() and Unwrap() = err; Wrap(nil, ...)
\* returns nil; for an err that is a non-nil *AppError, Wrap returns err
\* itself with Details set to the message and its Code, Message, Cause and
\* HTTP status as they were; for a nil *AppError it panics.
C27_WrapOfForeignError ==
    ares.op = "Wrap" =>
        IF ares.err = NilErr THEN ares.out = WrapOut(NilErr, FALSE)
        ELSE Given(ares.message) =>
            IF ares.err.kind = "plain"
            THEN /\ ~ares.out.panic
                 /\ ares.out.ret # NilErr
                 /\ ares.out.ret.id = "new"
                 /\ ares.out.ret.Code = ares.code
                 /\ ares.out.ret.Message = ares.message[1]
                 /\ ares.out.ret.Cause = ares.err
                 /\ ares.out.ret.Details = ErrorText(ares.err)
                 /\ Unwrap(ares.out.ret) = ares.err
            ELSE IF ares.err.kind = "app"
            THEN /\ ~ares.out.panic
                 /\ ares.out.ret.id = ares.err.id
                 /\ ares.out.ret.Details = ares.message[1]
                 /\ ares.out.ret.Code = ares.err.Code
                 /\ ares.out.ret.Message = ares.err.Message
                 /\ ares.out.ret.Cause = ares.err.Cause
                 /\ ares.out.ret.HTTPStatus = ares.err.HTTPStatus
            ELSE ares.out.panic

\* Wrap was given an error of another package, a code and a message.
C27_Witness ==
    /\ ares.op = "Wrap"
    /\ ares.err = PlainError("e1", "database connection failed")
    /\ ares.code = CodeDatabaseError
    /\ ares.message = <<"Failed to fetch user">>
    /\ ares.out.ret.Cause = ares.err


\* The package-level call just made, were it made on the manager or the
\* encryptor that the latest successful Init installed.
C30_OnInstalled ==
    LET m == NewJWTManagerOf(dres.jwt).m
    IN  CASE dres.op = "GenerateAccessToken" ->
                 dres.out = GenerateToken(m, dres.in, AccessToken, now)
          [] dres.op = "GenerateRefreshToken" ->
                 dres.out = GenerateToken(m, dres.in, RefreshToken, now)
          [] dres.op = "ParseJWT" -> dres.out = ParseToken(m, dres.in, now)
          [] dres.op = "ValidateJWT" -> dres.out.err = ParseToken(m, dres.in, now).err
          [] dres.op = "Encrypt" -> dres.out = Encrypt(dres.key, dres.in[1], dres.in[2])
          [] dres.op = "EncryptBytes" ->
                 dres.out = EncryptBytes(dres.key, dres.in[1], dres.in[2])
          [] dres.op = "Decrypt" -> dres.out = Decrypt(dres.key, dres.in)
          [] dres.op = "DecryptBytes" -> dres.out = DecryptBytes(dres.key, dres.in)
          [] OTHER -> TRUE

\* C30: in every sequence of calls, the package-level JWT functions return the
\* Internal error "JWT manager not initialized", and the package-level
\* encryption functions the Internal error "encryptor not initialized", until
\* the first successful InitDefaultJWT resp. InitDefaultEncryptor; a failed
\* Init leaves the default installed before it in place; and after a
\* successful Init every call gives what the most recently installed manager
\* or encryptor gives.
C30_DefaultsInstalledOnSuccess ==
    /\ defaultJWTManager = (IF dres.jwt = Nil THEN Nil ELSE NewJWTManagerOf(dres.jwt).m)
    /\ defaultEncryptor = dres.key
    /\ dres.op \in {"GenerateAccessToken", "GenerateRefreshToken", "ParseJWT", "ValidateJWT"} =>
          IF dres.jwt = Nil
          THEN /\ dres.out.err = AppError("INTERNAL_ERROR", "JWT manager not initialized")
               /\ dres.op \in {"GenerateAccessToken", "GenerateRefreshToken"} =>
                     dres.out.tok = EmptyToken
               /\ dres.op = "ParseJWT" => dres.out.claims = Nil
          ELSE C30_OnInstalled
    /\ dres.op \in {"Encrypt", "EncryptBytes", "Decrypt", "DecryptBytes"} =>
          IF dres.key = Nil
          THEN /\ dres.out.err = AppError("INTERNAL_ERROR", "encryptor not initialized")
               /\ dres.out.text = EmptyString /\ dres.out.raw = <<>>
          ELSE C30_OnInstalled

\* A manager was installed, an InitDefaultJWT with a config that is refused
\* failed after it, and the token held, made before by the manager still
\* installed, is parsed by it.
C30_Witness ==
    /\ dres.op = "InitDefaultJWT"
    /\ dres.out.err # NoError
    /\ dres.jwt # Nil /\ dres.jwt.Issuer = "other"
    /\ defaultJWTManager # Nil
    /\ dheld.tok # EmptyToken
    /\ ParseJWT(defaultJWTManager, dheld.tok, now).err = NoError
    /\ defaultEncryptor # Nil


\* C24: any number of goroutines may call the operations of one JWTManager
\* at the same time without locking, and under every interleaving each call
\* returns what it would return if it ran alone; each token of concurrent
\* GenerateToken calls carries the expiry of its own token type and the
\* identity fields passed to that call.  Two calls handed the same claims
\* object write its fields in turn, and one signs what the other wrote.
C24_EachCallAsIfAlone ==
    \A g \in Goroutines :
        gor[g].pc = "done" =>
            gor[g].out = GenerateToken(mgr, ClaimsObjects[gor[g].obj],
                                       gor[g].tt, gor[g].at).tok

\* Calls that were handed different claims objects return what they return
\* alone.
C24_ApartAsIfAlone ==
    \A g \in Goroutines :
        (/\ gor[g].pc = "done"
         /\ \A h \in Goroutines \ {g} : gor[h].pc = "idle" \/ gor[h].obj # gor[g].obj)
        => gor[g].out = GenerateToken(mgr, ClaimsObjects[gor[g].obj],
                                      gor[g].tt, gor[g].at).tok


\* The call just made on the component, were it made with the configuration
\* the component was constructed with.
C25_AsConstructed ==
    CASE cres.op = "GenerateToken" ->
             cres.out = GenerateToken(comp.built, ClaimsObjects[1], cres.in, cres.at).tok
      [] cres.op = "HashPassword" ->
             cres.out = HashPassword(comp.built, "pw", cres.in, cres.r)
      [] cres.op = "Encrypt" -> cres.out = Encrypt(comp.built.Key, cres.in, cres.r)
      [] OTHER -> TRUE

\* C25: a constructed Hasher, JWTManager or Encryptor is immutable: no
\* operation of it changes its configuration, and nothing done after
\* construction, the caller modifying the config object or the key bytes it
\* passed to the constructor included, changes the algorithm, keys, issuer,
\* audience, TTLs or cost parameters the component uses.  The component holds
\* the caller's pointer, so what the caller writes is what it uses.
C25_ConfigurationFixed ==
    comp.kind # "none" => cobj = comp.built /\ C25_AsConstructed

\* The operations themselves leave the configuration as it is: while the
\* caller holds no pointer to the config object, it stays as constructed.
C25_OperationsLeaveConfiguration ==
    (comp.kind # "none" /\ ~comp.shared) => cobj = comp.built /\ C25_AsConstructed

====
